---- MODULE Spec2Model ----
(***************************************************************************)
(* A model of the orchestration layer of the Nexus AI gateway:             *)
(*   - the adapter lifecycle (ModelManager.load_lora_adapter/unload_model  *)
(*     in services/model_manager.py and its older copy, and                *)
(*     LoRAInferenceService in services/inference_service.py);             *)
(*   - the backend router (enhanced_chat_endpoint in main.py);             *)
(*   - the retrieval answer (ModelManager.get_rag_response);               *)
(*   - the response streams (the generators of main.py and of              *)
(*     "main copy.py", with the word-level regrouping of the latter).      *)
(*   - the turns chat_endpoint of "main copy.py" records in its memory,    *)
(*     the vision branch of main.py step by step, and the training jobs    *)
(*     of TrainingService in services/training_service.py.                 *)
(*                                                                         *)
(* Scheduling.  Every handler is an asyncio coroutine on one event loop.   *)
(* A coroutine gives up control only at an await that really suspends.     *)
(* load_lora_adapter and ModelManager.unload_model contain no await;       *)
(* _ensure_loaded, generate_response and LoRAInferenceService.unload_model *)
(* await only the acquisition of _load_lock, and nothing suspends while    *)
(* holding it (the loading calls are blocking calls), so the lock is free  *)
(* whenever a coroutine reaches it and asyncio.Lock.acquire returns at     *)
(* once.  Each of these handlers therefore runs as one atomic step, and    *)
(* concurrency is the interleaving of whole handlers.                      *)
(***************************************************************************)
EXTENDS Integers, Sequences, FiniteSets, TLC

(* ------------------------------ bounds -------------------------------- *)
MaxServices == 2

(* --------------------------- value domains ---------------------------- *)
None == "None"
Obj == "loaded"

\* adapter directories under TrainingConfig.LORA_TRAINED_PATH
Paths == {"trained/x", "trained/y"}
\* two base_model names; _get_base_model_path maps both to the same weights
BaseModels == {"llama3", "llama2"}

\* Path(adapter_path).name
adapter_name(adapter_path) ==
    CASE adapter_path = "trained/x" -> "x"
      [] adapter_path = "trained/y" -> "y"

\* model_id = f"lora_{adapter_name}"
ModelId(adapter_path) ==
    CASE adapter_name(adapter_path) = "x" -> "lora_x"
      [] adapter_name(adapter_path) = "y" -> "lora_y"

ModelIds == {ModelId(p) : p \in Paths}

get_base_model_path(base_model) ==
    CASE base_model = "llama3" -> "meta-llama/Llama-2-7b-hf"
      [] base_model = "llama2" -> "meta-llama/Llama-2-7b-hf"
      [] base_model = "codellama" -> "codellama/CodeLlama-7b-hf"
      [] base_model = "mistral" -> "mistralai/Mistral-7B-v0.1"
      [] OTHER -> "meta-llama/Llama-2-7b-hf"

(* ------------------------------ state --------------------------------- *)
VARIABLES
    has_loaded_models,  \* does the ModelManager instance have the attribute loaded_models
    mm_HAS_ML_DEPS,     \* model_manager.HAS_ML_DEPS
    inf_HAS_ML_DEPS,    \* inference_service.HAS_ML_DEPS
    on_disk,            \* the adapter paths that exist
    loaded_models,      \* ModelManager.loaded_models: model_id -> entry
    services,           \* every LoRAInferenceService constructed, by number
    held,               \* the services some caller holds a reference to
    last,               \* the last call completed: what was called and what came back
    model_manager,      \* main.py: is the global model_manager an object (not None)
    request,            \* the /chat request being answered
    response,           \* what enhanced_chat_endpoint did with it
    rag_call,           \* the last get_rag_response call: its prompt and what it did
    stream,             \* one response stream: its generator and what it has yielded
    other_stream,       \* a second response stream, in flight at the same time
    vision,             \* the vision branch of one request: where it is, its temp file
    active_trainings,   \* TrainingService.active_trainings: job id -> status
    cancelled_jobs,     \* TrainingService.cancelled_jobs
    tasks,              \* the training task of each job: its kind and where it is
    reported,           \* the status _update_status last reported for each job
    cancel_true,        \* the jobs cancel_training has returned True for
    fn_call,            \* the last application of a function: its inputs and its result
    conversations,      \* ConversationMemory.conversations: session id -> messages
    added               \* how many add_message calls each session has had

adapter_vars == <<has_loaded_models, mm_HAS_ML_DEPS, inf_HAS_ML_DEPS, on_disk,
                  loaded_models, services, held, last>>

router_vars == <<model_manager, request, response>>

rag_vars == <<rag_call>>

stream_vars == <<stream, other_stream>>

fn_vars == <<fn_call>>

memory_vars == <<conversations, added>>
vision_vars == <<vision>>
training_vars == <<active_trainings, cancelled_jobs, tasks, reported, cancel_true>>

vars == <<adapter_vars, router_vars, rag_vars, stream_vars, fn_vars, memory_vars,
          vision_vars, training_vars>>

\* what the handlers of one part leave alone
beside_adapter == <<router_vars, rag_vars, stream_vars, fn_vars, memory_vars, vision_vars,
    training_vars>>
beside_router == <<adapter_vars, rag_vars, stream_vars, fn_vars, memory_vars, vision_vars,
    training_vars>>
beside_rag == <<adapter_vars, router_vars, stream_vars, fn_vars, memory_vars, vision_vars,
    training_vars>>
beside_stream == <<adapter_vars, router_vars, rag_vars, fn_vars, memory_vars, vision_vars,
    training_vars>>
beside_fn == <<adapter_vars, router_vars, rag_vars, stream_vars, memory_vars, vision_vars,
    training_vars>>
\* the variables the actions on streams and on the vision branch leave alone
beside_vision == <<adapter_vars, router_vars, rag_vars, fn_vars, memory_vars,
    training_vars>>
beside_training ==
    <<adapter_vars, router_vars, rag_vars, stream_vars, fn_vars, memory_vars,
      vision_vars>>
beside_memory == <<adapter_vars, router_vars, rag_vars, stream_vars, fn_vars, vision_vars,
    training_vars>>

EmptyDict == [k \in {} |-> None]

\* no image request has reached the vision branch yet
NoVision == [pc |-> "idle", temp_image_path |-> "none"]

\* the training jobs that are followed; no task has been made for a job yet
JobIds == {"j1", "j2"}
NoTask == [kind |-> None, pc |-> "none", step |-> 0]

\* no function has been applied yet
NoFnCall == [op |-> "none"]

\* the session ids of the requests
Sessions == {"s1", "s2"}

\* op: the handler; out: what came back; arg: the model id of a load or an
\* unload; base: the base_model of a load that found the adapter already loaded;
\* svc: the service of a generate_response or of a
\* LoRAInferenceService.unload_model; again: the call
\* before it was the unload this call follows up (unload_model of the same id
\* that returned success, before an unload_model;
\* LoRAInferenceService.unload_model of the same service, before a
\* generate_response)
NoCall ==
    [op |-> "none", arg |-> None, base |-> None, svc |-> 0, out |-> None, again |-> FALSE]

Call(op, arg, base, svc, out, again) ==
    [op |-> op, arg |-> arg, base |-> base, svc |-> svc, out |-> out, again |-> again]

(* ---------------------- LoRAInferenceService -------------------------- *)
\* LoRAInferenceService.__init__: the weights are not loaded here
ServiceInit(base_model_name, lora_path) ==
    [base_model_name |-> base_model_name,
     lora_path       |-> lora_path,
     model           |-> None,
     tokenizer       |-> None,
     generator       |-> None,
     is_loaded       |-> FALSE,
     load_lock       |-> FALSE]

\* an object nothing refers to any more
FreedService ==
    [base_model_name |-> None,
     lora_path       |-> None,
     model           |-> None,
     tokenizer       |-> None,
     generator       |-> None,
     is_loaded       |-> FALSE,
     load_lock       |-> FALSE]

\* the stages of the load inside _ensure_loaded that can raise
LoadFailures == {"tokenizer", "base_model", "peft", "pipeline", "ok"}

\* a variant that marks the service loaded although the pipeline was not built
ensure_loaded_marks_early(svc, fail_at) ==
    IF svc.is_loaded \/ ~inf_HAS_ML_DEPS
    THEN [svc |-> svc, raised |-> FALSE]
    ELSE IF fail_at = "ok"
    THEN [svc |-> [svc EXCEPT !.tokenizer = Obj, !.model = Obj, !.generator = Obj,
                              !.is_loaded = TRUE],
          raised |-> FALSE]
    ELSE [svc |-> [svc EXCEPT !.tokenizer = Obj, !.is_loaded = TRUE], raised |-> TRUE]

\* _ensure_loaded: [svc: the service afterwards, raised: did it raise]
ensure_loaded(svc, fail_at) ==
    IF svc.is_loaded \/ ~inf_HAS_ML_DEPS
    THEN [svc |-> svc, raised |-> FALSE]
    ELSE \* async with self._load_lock: free, taken, released within the step
      IF svc.is_loaded
      THEN [svc |-> svc, raised |-> FALSE]
      ELSE IF fail_at = "tokenizer"
      THEN [svc |-> [svc EXCEPT !.is_loaded = FALSE], raised |-> TRUE]
      ELSE IF fail_at = "base_model" \/ svc.lora_path \notin on_disk \/ fail_at = "peft"
      THEN [svc |-> [svc EXCEPT !.tokenizer = Obj, !.is_loaded = FALSE],
            raised |-> TRUE]
      ELSE IF fail_at = "pipeline"
      THEN [svc |-> [svc EXCEPT !.tokenizer = Obj, !.model = Obj, !.is_loaded = FALSE],
            raised |-> TRUE]
      ELSE [svc |-> [svc EXCEPT !.tokenizer = Obj, !.model = Obj, !.generator = Obj,
                                !.is_loaded = TRUE],
            raised |-> FALSE]

\* what the pipeline call inside generate_response can do
GenOutcomes == {"text", "empty", "raise"}

\* generate_response: [svc: the service afterwards, out: what the caller gets]
generate(svc, fail_at, gen) ==
    IF ~inf_HAS_ML_DEPS
    THEN [svc |-> svc, out |-> "mock_no_deps"]
    ELSE LET e == IF ~svc.is_loaded THEN ensure_loaded(svc, fail_at)
                  ELSE [svc |-> svc, raised |-> FALSE]
         IN IF e.raised
            THEN [svc |-> e.svc, out |-> "error_load"]
            ELSE IF ~e.svc.is_loaded
            THEN [svc |-> e.svc, out |-> "mock_failed_to_load"]
            ELSE IF e.svc.generator # None
            THEN IF e.svc.tokenizer = None
                 THEN [svc |-> e.svc, out |-> "error_none_deref"]
                 ELSE IF gen = "raise"
                 THEN [svc |-> e.svc, out |-> "error_generate"]
                 ELSE [svc |-> e.svc, out |-> gen]
            ELSE [svc |-> e.svc, out |-> "mock_not_fully_loaded"]

\* a variant that lets go of all three and forgets "self._loaded = False"
release_keeps_flag(svc) ==
    [svc EXCEPT !.generator = None, !.model = None, !.tokenizer = None]

\* a variant that lets go of the tokenizer only and leaves the service marked loaded
release_tokenizer_only(svc) == [svc EXCEPT !.tokenizer = None]

\* LoRAInferenceService.unload_model, under _load_lock
release(svc) ==
    [svc EXCEPT !.generator = None, !.model = None, !.tokenizer = None,
                !.is_loaded = FALSE]

(* --------------------------- ModelManager ----------------------------- *)
put(d, k, v) == [x \in DOMAIN d \cup {k} |-> IF x = k THEN v ELSE d[x]]
pop(d, k) == [x \in DOMAIN d \ {k} |-> d[x]]

\* the services something still refers to: a registry entry or a caller
Referenced(reg, hnd) == {reg[id].service : id \in DOMAIN reg} \cup hnd

\* reference counting: an object nothing refers to is freed
Collect(svcs, reg, hnd) ==
    [s \in DOMAIN svcs |-> IF s \in Referenced(reg, hnd) THEN svcs[s] ELSE FreedService]

\* a variant without the test: every load registers anew
AlreadyLoaded_never(model_id) == FALSE

\* the "already loaded" test of load_lora_adapter
AlreadyLoaded(model_id) == model_id \in DOMAIN loaded_models

\* a variant that never looks for the adapter directory
load_adapter_no_path_check(adapter_path, base_model, ctor_raises) ==
    IF ~mm_HAS_ML_DEPS \/ ~has_loaded_models
    THEN [out |-> "raised_ImportError", loaded_models |-> loaded_models,
          services |-> services]
    ELSE [out |-> "already_loaded", loaded_models |-> loaded_models,
          services |-> services]

\* load_lora_adapter: [out, loaded_models, services]
load_adapter(adapter_path, base_model, ctor_raises) ==
    LET model_id == ModelId(adapter_path)
        same(out) == [out |-> out, loaded_models |-> loaded_models, services |-> services]
    IN IF ~mm_HAS_ML_DEPS THEN same("raised_ImportError")
       ELSE IF adapter_path \notin on_disk THEN same("raised_FileNotFoundError")
       ELSE IF ~has_loaded_models THEN same("raised_AttributeError")
       ELSE IF AlreadyLoaded(model_id) THEN same("already_loaded")
       ELSE IF ctor_raises
       THEN [out |-> "raised_init", loaded_models |-> pop(loaded_models, model_id),
             services |-> services]
       ELSE [out |-> "loaded",
             loaded_models |->
                 put(loaded_models, model_id,
                     [id |-> model_id, name |-> adapter_name(adapter_path),
                      base_model |-> base_model, adapter_path |-> adapter_path,
                      loaded_at |-> Len(services) + 1,
                      service |-> Len(services) + 1]),
             services |->
                 Append(services,
                        ServiceInit(get_base_model_path(base_model), adapter_path))]

\* a variant that reports success and leaves the entry in the registry
unload_keeps_entry(model_id) ==
    IF ~has_loaded_models
    THEN [out |-> "unload_failed", loaded_models |-> loaded_models]
    ELSE IF model_id \notin DOMAIN loaded_models
    THEN [out |-> "not_found", loaded_models |-> loaded_models]
    ELSE [out |-> "success", loaded_models |-> loaded_models]

\* ModelManager.unload_model: [out, loaded_models]
unload(model_id) ==
    IF ~has_loaded_models
    THEN [out |-> "unload_failed", loaded_models |-> loaded_models]
    ELSE IF model_id \notin DOMAIN loaded_models
    THEN [out |-> "not_found", loaded_models |-> loaded_models]
    ELSE [out |-> "success", loaded_models |-> pop(loaded_models, model_id)]

(* ------------------------------ actions ------------------------------- *)
Config == <<has_loaded_models, mm_HAS_ML_DEPS, inf_HAS_ML_DEPS, on_disk>>

load_lora_adapter(adapter_path, base_model, ctor_raises) ==
    LET r == load_adapter(adapter_path, base_model, ctor_raises)
    IN /\ Len(r.services) <= MaxServices
       \* an input that is not read names one value only
       /\ r.out \notin {"loaded", "raised_init"} => ~ctor_raises
       /\ loaded_models' = r.loaded_models
       /\ services' = r.services
       /\ last' = Call("load_lora_adapter", ModelId(adapter_path),
                       IF r.out = "already_loaded" THEN base_model ELSE None,
                       0, r.out, FALSE)
       /\ UNCHANGED <<Config, held, beside_adapter>>

unload_model(model_id) ==
    LET r == unload(model_id)
    IN /\ loaded_models' = r.loaded_models
       /\ services' = Collect(services, r.loaded_models, held)
       /\ last' = Call("unload_model", model_id, None, 0, r.out,
                       last.op = "unload_model" /\ last.arg = model_id
                           /\ last.out = "success")
       /\ UNCHANGED <<Config, held, beside_adapter>>

\* the lookup of the handle of model_id in the registry, by any caller: the
\* caller holds the service it finds until it drops it
get(model_id) ==
    LET s == IF has_loaded_models /\ model_id \in DOMAIN loaded_models
             THEN loaded_models[model_id].service ELSE 0
    IN /\ held' = IF s = 0 THEN held ELSE held \cup {s}
       /\ last' = Call("get", None, None, 0, IF s = 0 THEN "absent" ELSE "found", FALSE)
       /\ UNCHANGED <<Config, loaded_models, services, beside_adapter>>

\* the last caller holding service s lets go of it
drop(s) ==
    /\ s \in held
    /\ held' = held \ {s}
    /\ services' = Collect(services, loaded_models, held')
    /\ last' = Call("drop", None, None, 0, None, FALSE)
    /\ UNCHANGED <<Config, loaded_models, beside_adapter>>

\* generate_response on a service a caller holds
generate_response(s, fail_at, gen) ==
    /\ s \in held
    \* an input that is not read names one value only
    /\ (services[s].is_loaded \/ ~inf_HAS_ML_DEPS) => fail_at = "ok"
    /\ (fail_at # "ok" \/ ~inf_HAS_ML_DEPS) => gen = "text"
    /\ LET r == generate(services[s], fail_at, gen)
       IN /\ services' = [services EXCEPT ![s] = r.svc]
          /\ last' = Call("generate_response", None, None, s, r.out,
                          last.op = "service_unload_model" /\ last.svc = s)
    /\ UNCHANGED <<Config, loaded_models, held, beside_adapter>>

\* LoRAInferenceService.unload_model on a service a caller holds
service_unload_model(s, cache_raises) ==
    /\ s \in held
    /\ ~services[s].load_lock
    /\ ~inf_HAS_ML_DEPS => ~cache_raises
    /\ services' = [services EXCEPT ![s] = release(services[s])]
    /\ last' = Call("service_unload_model", None, None, s,
                    IF cache_raises THEN "raised" ELSE "ok", FALSE)
    /\ UNCHANGED <<Config, loaded_models, held, beside_adapter>>

(* ------------------------------ router -------------------------------- *)
\* the values the fields of an EnhancedChatRequest take
Types == {"text", "image", "document"}
Messages == {"hello", "what is the pricing", "show me the picture"}
AdapterIds == {"lora_x", "lora_y"}
FileUrls == {"http://files/upload.bin", "https://res.cloudinary.com/upload.png"}
FileNames == {"report.pdf", "photo.png"}
ContextFileUrls == {"http://files/context.png"}
ImageUrls == {"https://res.cloudinary.com/previous.png"}

\* 'cloudinary.com' in url
in_cloudinary(url) ==
    url \in {"https://res.cloudinary.com/upload.png",
             "https://res.cloudinary.com/previous.png"}

\* any(ext in s.lower() for ext in ['.jpg', '.jpeg', '.png', '.gif', '.bmp', '.webp'])
has_image_ext(s) ==
    s \in {"https://res.cloudinary.com/upload.png",
           "https://res.cloudinary.com/previous.png",
           "http://files/context.png", "photo.png"}

\* any(keyword in query_lower for keyword in document_keywords)
has_document_keyword(message) == message \in {"what is the pricing"}

\* any(word in request.message.lower() for word in ['image', 'picture', ...])
has_image_word(message) == message \in {"show me the picture"}

NoRequest ==
    [type |-> None, message |-> None, adapter_id |-> None, extractedText |-> None,
     fileUrl |-> None, fileName |-> None, contextEnabled |-> FALSE,
     contextInstruction |-> None, contextType |-> None, contextFileUrl |-> None,
     hasImageContext |-> FALSE, imageUrl |-> None]

\* a field that is not read names one value only: contextType counts next to a
\* contextFileUrl, hasImageContext next to an imageUrl, contextInstruction when
\* contextEnabled is off
Requests ==
    {r \in [type : Types, message : Messages, adapter_id : AdapterIds \cup {None},
            extractedText : {None, "", "text"}, fileUrl : FileUrls \cup {None},
            fileName : FileNames \cup {None}, contextEnabled : BOOLEAN,
            contextInstruction : {None, "instruction"},
            contextType : {None, "image"},
            contextFileUrl : ContextFileUrls \cup {None},
            hasImageContext : BOOLEAN, imageUrl : ImageUrls \cup {None}] :
        /\ r.contextFileUrl = None => r.contextType = None
        /\ r.imageUrl = None => ~r.hasImageContext
        /\ r.contextEnabled => r.contextInstruction = None}

\* the doc_id in the metadata of a retrieved chunk ('unknown' when it has none)
DocIds == {"d1", "d2", "unknown"}
MaxDocs == 2
DocLists == UNION {[1..k -> DocIds] : k \in 0..MaxDocs}

\* what the store, the retriever and the QA chain can do in get_rag_response:
\* count() raises or says whether there are documents, the retriever raises or
\* returns chunks, the chain raises or returns a result with or without
\* "source_documents".  A step that is not reached names one value only.
Counts == {"raise", "zero", "some"}
RagRunsOver(docs) ==
    {g \in [count : Counts, retrieval_raises : BOOLEAN, relevant_docs : docs,
            generation_raises : BOOLEAN, has_source_documents : BOOLEAN,
            source_documents : docs] :
        /\ g.count # "some" => ~g.retrieval_raises /\ g.relevant_docs = <<>>
        /\ g.retrieval_raises => g.relevant_docs = <<>>
        /\ (g.count # "some" \/ g.retrieval_raises \/ g.relevant_docs = <<>>)
           => ~g.generation_raises
        /\ (g.generation_raises \/ g.relevant_docs = <<>>)
           => ~g.has_source_documents
        /\ ~g.has_source_documents => g.source_documents = <<>>}
RagRuns == RagRunsOver(DocLists)

NoNote == [kind |-> None, ids |-> {}, n |-> 0]
NoRag == [store |-> None, calls |-> <<>>, out |-> None, note |-> NoNote]

\* a variant that goes on to the retriever and the chain whatever count() says
get_rag_response_always_retrieves(g) ==
    [store |-> g.count, calls |-> <<"count", "get_relevant_documents", "qa_chain">>,
     out |-> "answer", note |-> [kind |-> "general_knowledge", ids |-> {}, n |-> 0]]

\* a variant that goes on after a step that failed and answers all the same
get_rag_response_goes_on(g) ==
    [store |-> g.count, calls |-> <<"count", "get_relevant_documents", "qa_chain">>,
     out |-> IF g.count = "zero" THEN "no_documents" ELSE "answer",
     note |-> IF g.count = "zero" THEN NoNote
              ELSE [kind |-> "general_knowledge", ids |-> {}, n |-> 0]]

\* a variant whose note is about the chunks retrieved, not the ones the chain used
get_rag_response_notes_retrieved(g) ==
    LET doc_ids == {g.relevant_docs[i] : i \in DOMAIN g.relevant_docs} \ {"unknown"}
    IN [store |-> g.count, calls |-> <<"count", "get_relevant_documents", "qa_chain">>,
        out |-> "answer",
        note |-> IF doc_ids # {} THEN [kind |-> "doc_ids", ids |-> doc_ids, n |-> 0]
                 ELSE [kind |-> "sections", ids |-> {}, n |-> Len(g.relevant_docs)]]

\* ModelManager.get_rag_response: it returns a text on every path and catches
\* whatever is raised inside it
get_rag_response(g) ==
    LET ret(calls, out) ==
            [store |-> g.count, calls |-> calls, out |-> out, note |-> NoNote]
    IN IF g.count = "raise" THEN ret(<<"count">>, "database_trouble")
       ELSE IF g.count = "zero" THEN ret(<<"count">>, "no_documents")
       ELSE IF g.retrieval_raises
       THEN ret(<<"count", "get_relevant_documents">>, "retrieval_error")
       ELSE IF g.relevant_docs = <<>>
       THEN ret(<<"count", "get_relevant_documents">>, "no_relevant_documents")
       ELSE LET calls == <<"count", "get_relevant_documents", "qa_chain">>
                source_docs == IF g.has_source_documents THEN g.source_documents
                               ELSE g.relevant_docs
                doc_ids == {source_docs[i] : i \in DOMAIN source_docs} \ {"unknown"}
            IN IF g.generation_raises THEN ret(calls, "generation_error")
               ELSE [store |-> g.count, calls |-> calls, out |-> "answer",
                     note |-> IF source_docs = <<>>
                              THEN [kind |-> "general_knowledge", ids |-> {}, n |-> 0]
                              ELSE IF doc_ids # {}
                              THEN [kind |-> "doc_ids", ids |-> doc_ids, n |-> 0]
                              ELSE [kind |-> "sections", ids |-> {},
                                    n |-> Len(source_docs)]]

NoResponse ==
    [branch |-> None, image_url |-> None, calls |-> <<>>, final_prompt |-> None,
     system_msg |-> None, rag |-> NoRag, out |-> None]

detected_image_url_by_name(r) ==
    IF r.fileName # None /\ has_image_ext(r.fileName) THEN r.fileName ELSE None

\* the if/elif chain of the image context detection
detected_image_url(r) ==
    IF r.type = "image" /\ r.fileUrl # None THEN r.fileUrl
    ELSE IF r.contextFileUrl # None /\ r.contextType = "image" THEN r.contextFileUrl
    ELSE IF r.hasImageContext /\ r.imageUrl # None THEN r.imageUrl
    ELSE IF r.fileUrl # None
            /\ (r.type = "image" \/ (r.fileName # None /\ has_image_ext(r.fileName)))
    THEN r.fileUrl
    ELSE None

\* the last test: the first Cloudinary image URL of the request
cloudinary_image_url(r) ==
    LET is(url) == url # None /\ in_cloudinary(url) /\ has_image_ext(url)
    IN IF is(r.fileUrl) THEN r.fileUrl
       ELSE IF is(r.contextFileUrl) THEN r.contextFileUrl
       ELSE IF is(r.imageUrl) THEN r.imageUrl
       ELSE None

\* image_url when the detection is over (None: has_image_context is False)
image_url(r) ==
    IF cloudinary_image_url(r) # None THEN cloudinary_image_url(r)
    ELSE detected_image_url(r)

\* what the three awaits of the vision branch can do
Downloads == {"200", "404", "raise"}
ModelLists == {"vision", "none", "raise"}
ChatCalls == {"ok", "raise"}

\* the vision branch: every path returns
vision_branch(r, download, models, vision_chat) ==
    LET reply(calls, out) ==
            [branch |-> "vision", image_url |-> image_url(r), calls |-> calls,
             final_prompt |-> None, system_msg |-> None, rag |-> NoRag, out |-> out]
    IN IF download = "raise" THEN reply(<<"http_get">>, "vision_processing_failed")
       ELSE IF download = "404" THEN reply(<<"http_get">>, "could_not_download")
       ELSE IF models = "raise"
       THEN reply(<<"http_get", "list">>, "error_checking_models")
       ELSE IF models = "none"
       THEN reply(<<"http_get", "list">>, "no_vision_model")
       ELSE IF vision_chat = "raise"
       THEN reply(<<"http_get", "list", "vision_chat">>, "vision_call_failed")
       ELSE reply(<<"http_get", "list", "vision_chat">>, "vision_stream")

\* a variant that looks at the message only
chat_should_use_rag_by_keyword(r) == has_document_keyword(r.message)

\* should_use_rag of enhanced_chat_endpoint
chat_should_use_rag(r) ==
    IF r.contextEnabled /\ model_manager THEN has_document_keyword(r.message)
    ELSE FALSE

\* a variant that calls the text backend again and again when it fails
text_branch_retry_loop(r, rag, chat) ==
    [branch |-> "text", image_url |-> None,
     calls |-> IF chat = "raise" THEN <<"chat", "chat", "chat">> ELSE <<"chat">>,
     final_prompt |-> "message", system_msg |-> "general", rag |-> NoRag,
     out |-> IF chat = "raise" THEN "ai_service_unavailable" ELSE "ollama_stream"]

\* the branches after the image detection found no image
text_branch(r, rag, chat) ==
    LET prompt0 == IF has_image_word(r.message) THEN "no_image_notice" ELSE "message"
        system_msg == IF r.type = "document" THEN "document_analysis"
                      ELSE IF chat_should_use_rag(r) THEN "knowledge_base"
                      ELSE "general"
        ollama(branch, final_prompt) ==
            [branch |-> branch, image_url |-> None, calls |-> <<"chat">>,
             final_prompt |-> final_prompt, system_msg |-> system_msg, rag |-> NoRag,
             out |-> IF chat = "raise" THEN "ai_service_unavailable"
                     ELSE "ollama_stream"]
    IN IF r.type = "document" /\ r.extractedText \notin {None, ""}
       THEN ollama("document", "document_prompt")
       ELSE IF chat_should_use_rag(r) /\ model_manager
       THEN [branch |-> "rag", image_url |-> None, calls |-> <<"get_rag_response">>,
             final_prompt |-> prompt0, system_msg |-> None,
             rag |-> get_rag_response(rag),
             out |-> "rag_stream"]
       ELSE IF r.contextEnabled /\ ~chat_should_use_rag(r)
       THEN ollama("general", "message")
       ELSE IF r.contextEnabled /\ ~model_manager
       THEN ollama("rag_unavailable", "message")
       ELSE IF r.contextInstruction # None
       THEN ollama("context_instruction", "instruction_and_message")
       ELSE ollama("text", "message")

\* the runs of get_rag_response the router is followed with: one for each
\* kind of text it returns
RouterRagRuns == RagRunsOver({<<>>, <<"d1">>})
AnyRagRun ==
    [count |-> "zero", retrieval_raises |-> FALSE, relevant_docs |-> <<>>,
     generation_raises |-> FALSE, has_source_documents |-> FALSE,
     source_documents |-> <<>>]

NoRagCall == [prompt |-> None, run |-> AnyRagRun, rag |-> NoRag]

\* one call of get_rag_response on the manager: conversation_context is not read
rag_query(prompt, g) ==
    /\ rag_call' = [prompt |-> prompt, run |-> g, rag |-> get_rag_response(g)]
    /\ UNCHANGED beside_rag


enhanced_chat_endpoint(r, download, models, vision_chat, rag, chat) ==
    \* an input that is not read names one value only
    /\ download # "200" => models = "vision"
    /\ models # "vision" => vision_chat = "ok"
    /\ request' = r
    /\ response' = IF image_url(r) # None
                   THEN vision_branch(r, download, models, vision_chat)
                   ELSE text_branch(r, rag, chat)
    /\ UNCHANGED <<model_manager, beside_router>>

(* ------------------------------ streams ------------------------------- *)
\* a text is the sequence of its characters
Chars == {"a", " ", "\n"}
MaxLen == 4
Strings == UNION {[1..n -> Chars] : n \in 0..MaxLen}

\* the message of an error fragment and the guidance texts of get_rag_response
\* (the texts of the code have several words too)
ErrorText == <<"E", " ", "x">>
GuidanceText == <<"G", " ", "y">>

\* a fragment the generator yields: a piece of backend text or of an error message
Text(s) == [kind |-> "text", text |-> s]
Error(s) == [kind |-> "error", text |-> s]

\* s.split(' '): the pieces between single spaces, empty ones included
RECURSIVE split(_)
split(s) ==
    IF \A i \in DOMAIN s : s[i] # " " THEN <<s>>
    ELSE LET i == CHOOSE k \in DOMAIN s :
                      s[k] = " " /\ \A j \in 1..(k - 1) : s[j] # " "
         IN <<SubSeq(s, 1, i - 1)>> \o split(SubSeq(s, i + 1, Len(s)))

\* s.strip(): s without its leading and trailing whitespace
strip(s) ==
    LET inked == {i \in DOMAIN s : s[i] \notin {" ", "\n"}}
    IN IF inked = {} THEN <<>>
       ELSE SubSeq(s, CHOOSE i \in inked : \A j \in inked : i <= j,
                      CHOOSE i \in inked : \A j \in inked : j <= i)

\* the generators that forward what the backend streams, chunk by chunk
Forwarders == {"stream_vision_response", "stream_ollama_response"}

\* the generators of "main copy.py" that regroup the backend text into words
Aggregators == {"llama_response", "llama_with_extracted_text"}

NoStream ==
    [gen |-> None, status |-> "none", received |-> <<>>, word_buffer |-> <<>>,
     emitted |-> <<>>]

\* a variant that yields the text held back as a fragment of its own when a
\* chunk with a space arrives
aggregate_per_chunk(word_buffer, content) ==
    IF content = <<>> THEN [yielded |-> <<>>, word_buffer |-> word_buffer]
    ELSE LET words == split(content)
         IN IF Len(words) > 1
            THEN [yielded |-> (IF word_buffer = <<>> THEN <<>> ELSE <<word_buffer>>)
                              \o [i \in 1..(Len(words) - 1) |-> Append(words[i], " ")],
                  word_buffer |-> words[Len(words)]]
            ELSE [yielded |-> <<>>, word_buffer |-> word_buffer \o content]

\* a variant that yields what it has as soon as it has it
aggregate_forwards(word_buffer, content) ==
    [yielded |-> IF word_buffer \o content = <<>> THEN <<>>
                 ELSE <<word_buffer \o content>>,
     word_buffer |-> <<>>]

\* the body of "async for chunk in stream" of llama_response and of
\* llama_with_extracted_text: [yielded: the fragments, word_buffer: afterwards]
aggregate(word_buffer, content) ==
    IF content = <<>> THEN [yielded |-> <<>>, word_buffer |-> word_buffer]
    ELSE LET words == split(word_buffer \o content)
         IN IF Len(words) > 1
            THEN [yielded |-> [i \in 1..(Len(words) - 1) |-> Append(words[i], " ")],
                  word_buffer |-> words[Len(words)]]
            ELSE [yielded |-> <<>>, word_buffer |-> word_buffer \o content]

\* a variant that yields nothing when the stream is over
flush_nothing(word_buffer) == <<>>

\* "if word_buffer.strip(): yield word_buffer" after the loop
flush(word_buffer) ==
    IF strip(word_buffer) # <<>> THEN <<word_buffer>> ELSE <<>>

\* the fragments as Text fragments
Texts(fragments) == [i \in DOMAIN fragments |-> Text(fragments[i])]

\* one turn of "async for chunk in stream" in generator st
chunk_step(st, content) ==
    IF st.gen \in Forwarders
    THEN [st EXCEPT !.received = @ \o content,
                    !.emitted = IF content = <<>> THEN @
                                ELSE Append(@, Text(content))]
    ELSE LET r == aggregate(st.word_buffer, content)
         IN [st EXCEPT !.received = @ \o content,
                       !.word_buffer = r.word_buffer,
                       !.emitted = @ \o Texts(r.yielded)]

\* what generator st does after the loop
end_step(st) ==
    IF st.gen \in Forwarders THEN [st EXCEPT !.status = "ended"]
    ELSE [st EXCEPT !.status = "ended",
                    !.emitted = @ \o Texts(flush(st.word_buffer))]

\* the except branch of generator st
error_step(st) ==
    [st EXCEPT !.status = "failed", !.emitted = Append(@, Error(ErrorText))]

\* the handler returns StreamingResponse(gen()) and the response is iterated
open_stream(gen) ==
    /\ stream = NoStream
    /\ stream' = [NoStream EXCEPT !.gen = gen, !.status = "running"]
    /\ UNCHANGED <<other_stream, beside_stream>>

\* the backend streams one chunk with this content
next_chunk(content) ==
    /\ stream.status = "running"
    /\ Len(stream.received) + Len(content) <= MaxLen
    /\ stream' = chunk_step(stream, content)
    /\ UNCHANGED <<other_stream, beside_stream>>

\* the backend stream is over
end_of_stream ==
    /\ stream.status = "running"
    /\ stream' = end_step(stream)
    /\ UNCHANGED <<other_stream, beside_stream>>

\* the backend raises: in client.chat of an aggregator before any chunk, or
\* while the stream is iterated
stream_error ==
    /\ stream.status = "running"
    /\ stream' = error_step(stream)
    /\ UNCHANGED <<other_stream, beside_stream>>

\* a variant that closes every response in flight
stop_consuming_closes_all(content, k) ==
    /\ stream.status = "running"
    /\ stream' = [stream EXCEPT !.status = "cancelled"]
    /\ other_stream' = [other_stream EXCEPT !.status = "cancelled"]
    /\ UNCHANGED beside_stream

\* the caller of the response stops iterating it: while the generator waits
\* for the next chunk (content is empty), or at one of the yields of the chunk
\* with this content, after k of its fragments.  The generator is closed at
\* that yield or await and nothing of it runs afterwards.
stop_consuming(content, k) ==
    /\ stream.status = "running"
    /\ Len(stream.received) + Len(content) <= MaxLen
    /\ LET st == chunk_step(stream, content)
       IN /\ k \in 0..(Len(st.emitted) - Len(stream.emitted))
          /\ k < Len(st.emitted) - Len(stream.emitted) \/ content = <<>>
          /\ stream' = [st EXCEPT !.status = "cancelled",
                                  !.emitted = SubSeq(@, 1, Len(stream.emitted) + k)]
    /\ UNCHANGED <<other_stream, beside_stream>>

\* the same generators, run for the second response
other_open(gen) ==
    /\ other_stream = NoStream
    /\ other_stream' = [NoStream EXCEPT !.gen = gen, !.status = "running"]
    /\ UNCHANGED <<stream, beside_stream>>

other_chunk(content) ==
    /\ other_stream.status = "running"
    /\ Len(other_stream.received) + Len(content) <= MaxLen
    /\ other_stream' = chunk_step(other_stream, content)
    /\ UNCHANGED <<stream, beside_stream>>

other_end ==
    /\ other_stream.status = "running"
    /\ other_stream' = end_step(other_stream)
    /\ UNCHANGED <<stream, beside_stream>>

other_error ==
    /\ other_stream.status = "running"
    /\ other_stream' = error_step(other_stream)
    /\ UNCHANGED <<stream, beside_stream>>

\* error_response, error_generator and the iter([...]) responses: the backend
\* call failed before there was a stream
error_response ==
    /\ stream = NoStream
    /\ stream' = [NoStream EXCEPT !.gen = "error_response", !.status = "failed",
                                  !.emitted = <<Error(ErrorText)>>]
    /\ UNCHANGED <<other_stream, beside_stream>>

\* what get_rag_response returned, as a text
RagOuts == {"answer", "no_documents", "no_relevant_documents", "database_trouble",
            "retrieval_error", "generation_error"}

\* stream_rag_response: the text get_rag_response returned, one character at
\* a time
stream_rag_response(out, answer) ==
    /\ stream = NoStream
    /\ out # "answer" => answer = <<>>
    /\ LET failed == out \in {"database_trouble", "retrieval_error", "generation_error"}
           response_text == IF out = "answer" THEN answer
                            ELSE IF failed THEN ErrorText ELSE GuidanceText
       IN stream' = [NoStream EXCEPT
                        !.gen = "stream_rag_response",
                        !.status = IF failed THEN "failed" ELSE "ended",
                        !.received = response_text,
                        !.emitted = [i \in DOMAIN response_text |->
                                        [kind |-> IF failed THEN "error" ELSE "text",
                                         text |-> <<response_text[i]>>]]]
    /\ UNCHANGED <<other_stream, beside_stream>>

\* what the BLIP server can do: the health check says unhealthy, cannot connect
\* or times out; the analysis answers 200, another status, cannot connect,
\* times out or raises something else
BlipOutcomes == {"unhealthy", "health_connection_error", "health_timeout", "200",
                 "http_error", "connection_error", "timeout", "exception"}

\* word + ' ' for every word of the text but the last
words_of(s) ==
    LET words == split(s)
    IN [i \in DOMAIN words |-> IF i < Len(words) THEN Append(words[i], " ")
                                ELSE words[i]]

\* blip_response of "main copy.py"
blip_response(outcome, content) ==
    /\ stream = NoStream
    /\ outcome # "200" => content = <<>>
    /\ stream' =
          IF outcome \in {"unhealthy", "health_connection_error"}
          THEN [NoStream EXCEPT !.gen = "blip_response", !.status = "failed",
                                !.emitted = <<Error(ErrorText)>>]
          ELSE IF outcome = "200"
          THEN [NoStream EXCEPT !.gen = "blip_response", !.status = "ended",
                                !.received = content,
                                !.emitted = Texts(words_of(content))]
          ELSE [NoStream EXCEPT
                   !.gen = "blip_response", !.status = "failed",
                   !.emitted = [i \in DOMAIN words_of(ErrorText) |->
                                   Error(words_of(ErrorText)[i])]]
    /\ UNCHANGED <<other_stream, beside_stream>>

(* ------------------- the vision branch, step by step ------------------ *)
\* the iter([...]) response of a path that returns before there is a stream
one_message == [NoStream EXCEPT !.gen = "error_response", !.status = "failed",
                                !.emitted = <<Error(ErrorText)>>]

\* "await http_client.get(image_url)" and, on a 200, the NamedTemporaryFile
\* (delete=False) the image is written to
vision_download(download) ==
    /\ vision.pc = "idle"
    /\ IF download = "200"
       THEN /\ vision' = [pc |-> "list", temp_image_path |-> "exists"]
            /\ UNCHANGED stream
       ELSE /\ vision' = [vision EXCEPT !.pc = "returned"]
            /\ stream' = one_message
    /\ UNCHANGED <<other_stream, beside_vision>>

\* "await client.list()" and the choice of the vision model; without a model
\* or when the listing raises, os.unlink(temp_image_path) and return
vision_list(models) ==
    /\ vision.pc = "list"
    /\ IF models = "vision"
       THEN /\ vision' = [vision EXCEPT !.pc = "chat"]
            /\ UNCHANGED stream
       ELSE /\ vision' = [pc |-> "returned", temp_image_path |-> "deleted"]
            /\ stream' = one_message
    /\ UNCHANGED <<other_stream, beside_vision>>

\* "await client.chat(...)": when it raises, os.unlink and return; otherwise
\* StreamingResponse(stream_vision_response()) is returned: the generator
\* object is there, nothing of its body has run
vision_call(vision_chat) ==
    /\ vision.pc = "chat"
    /\ IF vision_chat = "ok"
       THEN /\ vision' = [vision EXCEPT !.pc = "response"]
            /\ stream' = [NoStream EXCEPT !.gen = "stream_vision_response",
                                          !.status = "created"]
       ELSE /\ vision' = [pc |-> "returned", temp_image_path |-> "deleted"]
            /\ stream' = one_message
    /\ UNCHANGED <<other_stream, beside_vision>>

\* the response is iterated for the first time: the body runs up to the await
\* of "async for chunk in vision_response"
vision_first_next ==
    /\ vision.pc = "response"
    /\ stream.status = "created"
    /\ vision' = [vision EXCEPT !.pc = "streaming"]
    /\ stream' = [stream EXCEPT !.status = "running"]
    /\ UNCHANGED <<other_stream, beside_vision>>

\* one chunk of the vision backend
vision_chunk(content) ==
    /\ vision.pc = "streaming"
    /\ stream.status = "running"
    /\ Len(stream.received) + Len(content) <= MaxLen
    /\ stream' = chunk_step(stream, content)
    /\ UNCHANGED <<vision, other_stream, beside_vision>>

\* the backend stream is over: the loop ends and the finally block unlinks
vision_end ==
    /\ vision.pc = "streaming"
    /\ stream.status = "running"
    /\ stream' = end_step(stream)
    /\ vision' = [pc |-> "done", temp_image_path |-> "deleted"]
    /\ UNCHANGED <<other_stream, beside_vision>>

\* the backend stream raises: the except branch yields the error, the finally
\* block unlinks
vision_stream_error ==
    /\ vision.pc = "streaming"
    /\ stream.status = "running"
    /\ stream' = error_step(stream)
    /\ vision' = [pc |-> "done", temp_image_path |-> "deleted"]
    /\ UNCHANGED <<other_stream, beside_vision>>

\* the caller stops while the generator is suspended inside its try, at the
\* await or at a yield: the generator is closed there (CancelledError or
\* GeneratorExit, which "except Exception" lets through) and the finally block
\* unlinks
vision_stop_streaming ==
    /\ vision.pc = "streaming"
    /\ stream.status = "running"
    /\ stream' = [stream EXCEPT !.status = "cancelled"]
    /\ vision' = [pc |-> "closed", temp_image_path |-> "deleted"]
    /\ UNCHANGED <<other_stream, beside_vision>>

\* the caller is gone before the response is iterated: the generator object
\* is dropped before its body has begun, and the finally of a try that was
\* never entered does not run
vision_stop_unstarted ==
    /\ vision.pc = "response"
    /\ stream.status = "created"
    /\ stream' = [stream EXCEPT !.status = "cancelled"]
    /\ vision' = [vision EXCEPT !.pc = "closed"]
    /\ UNCHANGED <<other_stream, beside_vision>>

(* --------------------------- should_use_rag --------------------------- *)
\* the words queries are made of, with their letters
Words == {"Hello", "which", "price", "tell", "me", "ok"}
Letters(word) ==
    CASE word = "Hello" -> <<"H", "e", "l", "l", "o">>
      [] word = "which" -> <<"w", "h", "i", "c", "h">>
      [] word = "price" -> <<"p", "r", "i", "c", "e">>
      [] word = "tell" -> <<"t", "e", "l", "l">>
      [] word = "me" -> <<"m", "e">>
      [] word = "ok" -> <<"o", "k">>
MaxWords == 5
Queries == UNION {[1..n -> Words] : n \in 0..MaxWords}

\* the text of a query: its words with one space between them
RECURSIVE TextOf(_)
TextOf(query) ==
    IF query = <<>> THEN <<>>
    ELSE IF Len(query) = 1 THEN Letters(query[1])
    ELSE Letters(query[1]) \o <<" ">> \o TextOf(Tail(query))

\* text.lower()
lower(text) == [i \in DOMAIN text |-> IF text[i] = "H" THEN "h" ELSE text[i]]

\* pattern in text
contains(text, pattern) ==
    \E i \in 1..(Len(text) - Len(pattern) + 1) :
       SubSeq(text, i, i + Len(pattern) - 1) = pattern

\* the entries of rag_indicators, question_patterns and greeting_patterns that
\* can occur in a text made of Words
rag_indicators ==
    {<<"w", "h", "i", "c", "h">>, <<"p", "r", "i", "c", "e">>, <<"w", "h", "a", "t">>,
     <<"f", "i", "l", "e">>, <<"i", "n", " ", "t", "h", "e">>}
question_patterns ==
    {<<"t", "e", "l", "l", " ", "m", "e">>, <<"w", "h", "a", "t", " ", "i", "s">>}
greeting_patterns ==
    {<<"h", "i">>, <<"h", "e", "l", "l", "o">>, <<"h", "e", "y">>,
     <<"t", "h", "a", "n", "k", "s">>}

\* a variant that looks at the indicators before it looks at the greeting
should_use_rag_indicators_first(query) ==
    LET query_lower == lower(TextOf(query))
    IN \/ \E indicator \in rag_indicators : contains(query_lower, indicator)
       \/ /\ ~(/\ \E greeting \in greeting_patterns : contains(query_lower, greeting)
                /\ Len(query) < 5)
          /\ \E pattern \in question_patterns : contains(query_lower, pattern)
          /\ Len(query) > 3

\* ModelManager.should_use_rag; len(query.split()) is the number of words
should_use_rag(query) ==
    LET query_lower == lower(TextOf(query))
        has_indicators ==
            \E indicator \in rag_indicators : contains(query_lower, indicator)
        has_question_pattern ==
            \E pattern \in question_patterns : contains(query_lower, pattern)
        is_greeting ==
            /\ \E greeting \in greeting_patterns : contains(query_lower, greeting)
            /\ Len(query) < 5
    IN IF is_greeting THEN FALSE
       ELSE has_indicators \/ (has_question_pattern /\ Len(query) > 3)

\* one call of should_use_rag
ask_should_use_rag(query) ==
    /\ fn_call' = [op |-> "should_use_rag", query |-> query,
                   out |-> should_use_rag(query)]
    /\ UNCHANGED beside_fn

(* --------------------------- loaded models ---------------------------- *)
\* ModelManager.get_all_loaded_models: the base model and one row for each
\* entry of loaded_models, every one of them with status "loaded"
get_all_loaded_models ==
    {[id |-> "llama3", type |-> "base", status |-> "available",
      can_unload |-> FALSE]}
    \cup {[id |-> model_id, type |-> "lora", status |-> "loaded",
           can_unload |-> TRUE] : model_id \in DOMAIN loaded_models}

(* ------------------------- adapters on disk --------------------------- *)
\* the times a directory can have been made and last written to
MaxTime == 3
Times == 1..MaxTime
MaxEntries == 2

\* what lora_dir.iterdir() can yield: a directory or a plain file at a path,
\* with or without adapter_config.json, training_config.json missing,
\* unreadable or fine, made at birth and last written to at st_mtime
Entries ==
    [path : Paths, is_dir : {TRUE}, has_config : BOOLEAN,
     training : {"missing", "unreadable", "ok"},
     birth : Times, st_mtime : Times]
    \cup [path : Paths, is_dir : {FALSE}, has_config : {FALSE},
          training : {"missing"}, birth : Times, st_mtime : Times]

\* TrainingConfig.LORA_TRAINED_PATH: there or not, and its entries in the order
\* iterdir yields them
Roots ==
    {[exists |-> FALSE, entries |-> <<>>]}
    \cup {[exists |-> TRUE, entries |-> es] :
            es \in {l \in UNION {[1..n -> Entries] : n \in 0..MaxEntries} :
                      /\ \A i, j \in DOMAIN l : l[i].path = l[j].path => i = j
                      /\ \A i \in DOMAIN l : l[i].birth <= l[i].st_mtime}}

\* adapter_info of one qualifying directory
adapter_info(e) ==
    [name |-> adapter_name(e.path),
     path |-> e.path,
     created |-> e.st_mtime,
     is_loaded |-> \E model_id \in DOMAIN loaded_models :
                      loaded_models[model_id].adapter_path = e.path,
     base_model |-> IF e.training = "ok" THEN "base_model_name" ELSE None]

\* adapters.sort(key=lambda x: x["created"], reverse=True): the sort is stable,
\* equal keys keep the order they were appended in
sort_created_reverse(adapters) ==
    LET rank(i) == 1 + Cardinality({j \in DOMAIN adapters :
                        \/ adapters[j].created > adapters[i].created
                        \/ /\ adapters[j].created = adapters[i].created
                           /\ j < i})
    IN [k \in DOMAIN adapters |->
           adapters[CHOOSE i \in DOMAIN adapters : rank(i) = k]]

\* the adapter_info of the entries of l that qualify, in the order of l
RECURSIVE scan(_)
scan(l) ==
    IF l = <<>> THEN <<>>
    ELSE (IF Head(l).is_dir /\ Head(l).has_config
          THEN <<adapter_info(Head(l))>> ELSE <<>>) \o scan(Tail(l))

\* ModelManager.list_available_lora_adapters
list_available_lora_adapters(root) ==
    IF ~root.exists THEN <<>>
    ELSE sort_created_reverse(scan(root.entries))

list_adapters(root) ==
    /\ fn_call' = [op |-> "list_available_lora_adapters", root |-> root,
                   out |-> list_available_lora_adapters(root)]
    /\ UNCHANGED beside_fn

(* ------------------------ conversation memory ------------------------- *)
\* "Keep only last 20 messages"
HistoryLimit == 20
MaxAdds == 22

\* add_message on the dict convs: the session's list with the message
\* appended, cut to its last 20
remember_in(convs, session_id, message) ==
    LET old == IF session_id \in DOMAIN convs THEN convs[session_id] ELSE <<>>
        new == Append(old, message)
    IN put(convs, session_id,
           IF Len(new) > HistoryLimit
           THEN SubSeq(new, Len(new) - HistoryLimit + 1, Len(new))
           ELSE new)

\* a variant that keeps the first messages of a session and drops the new ones
remember_oldest(session_id, message) ==
    LET old == IF session_id \in DOMAIN conversations
               THEN conversations[session_id] ELSE <<>>
    IN put(conversations, session_id,
           IF Len(old) < HistoryLimit THEN Append(old, message) ELSE old)

\* the body of ConversationMemory.add_message: conversations afterwards
remember(session_id, message) == remember_in(conversations, session_id, message)

\* a variant that makes the session it is asked for
lookup_creates(session_id) ==
    [out |-> IF session_id \in DOMAIN conversations
             THEN conversations[session_id] ELSE <<>>,
     conversations |-> IF session_id \in DOMAIN conversations THEN conversations
                       ELSE put(conversations, session_id, <<>>)]

\* the body of ConversationMemory.get_conversation: [out, conversations]
lookup(session_id) ==
    [out |-> IF session_id \in DOMAIN conversations
             THEN conversations[session_id] ELSE <<>>,
     conversations |-> conversations]

\* ConversationMemory.add_message: the message gets a new id (here the number
\* of the call in its session); role, content, type and metadata are stored
\* and not read
add_message(session_id) ==
    /\ added[session_id] < MaxAdds
    /\ added' = [added EXCEPT ![session_id] = @ + 1]
    /\ conversations' = remember(session_id, [id |-> added[session_id] + 1])
    /\ fn_call' = [op |-> "add_message", session_id |-> session_id]
    /\ UNCHANGED <<adapter_vars, router_vars, rag_vars, stream_vars, vision_vars,
                 training_vars>>

\* ConversationMemory.get_conversation
get_conversation(session_id) ==
    /\ conversations' = lookup(session_id).conversations
    /\ fn_call' = [op |-> "get_conversation", session_id |-> session_id,
                   out |-> lookup(session_id).out]
    /\ UNCHANGED <<added, adapter_vars, router_vars, rag_vars, stream_vars, vision_vars,
                 training_vars>>

(* ------------------- the turns chat_endpoint records ------------------ *)
\* the requests of one session that are followed
MaxRequests == 3

\* a turn of the n-th request of its session
Turn(n, role) == [id |-> n, role |-> role]

\* no request of "main copy.py" is being answered
Answered(status) == status # "streaming"

\* a document request: with extracted text the handler records the user turn
\* and returns llama_with_extracted_text; without it, error_response
document_request(session_id, has_text) ==
    /\ Answered(fn_call.op)
    /\ added[session_id] < MaxRequests
    /\ added' = [added EXCEPT ![session_id] = @ + 1]
    /\ conversations' =
          IF has_text
          THEN remember_in(conversations, session_id,
                           Turn(added[session_id] + 1, "user"))
          ELSE conversations
    /\ fn_call' = [op |-> IF has_text THEN "streaming" ELSE "failed",
                   kind |-> "document", session_id |-> session_id,
                   id |-> added[session_id] + 1]
    /\ UNCHANGED <<adapter_vars, router_vars, rag_vars, stream_vars, vision_vars,
                 training_vars>>

\* llama_with_extracted_text comes to its end: after the last fragment it
\* records the assistant turn; when the backend raised it yields the error
document_stream_over(failed) ==
    /\ fn_call.op = "streaming"
    /\ conversations' =
          IF failed THEN conversations
          ELSE remember_in(conversations, fn_call.session_id,
                           Turn(fn_call.id, "assistant"))
    /\ fn_call' = [fn_call EXCEPT !.op = IF failed THEN "failed" ELSE "ended"]
    /\ UNCHANGED <<added, adapter_vars, router_vars, rag_vars, stream_vars, vision_vars,
                 training_vars>>

\* a text or an image request, answered by llama_response or blip_response:
\* both turns are recorded after the last fragment, none when the backend
\* failed
two_turns_at_end(session_id, kind, failed) ==
    /\ Answered(fn_call.op)
    /\ added[session_id] < MaxRequests
    /\ added' = [added EXCEPT ![session_id] = @ + 1]
    /\ conversations' =
          IF failed THEN conversations
          ELSE remember_in(remember_in(conversations, session_id,
                                       Turn(added[session_id] + 1, "user")),
                           session_id, Turn(added[session_id] + 1, "assistant"))
    /\ fn_call' = [op |-> IF failed THEN "failed" ELSE "ended",
                   kind |-> kind, session_id |-> session_id,
                   id |-> added[session_id] + 1]
    /\ UNCHANGED <<adapter_vars, router_vars, rag_vars, stream_vars, vision_vars,
                 training_vars>>

(* --------------------------- TrainingService -------------------------- *)
\* the entries of progress_steps in _run_mock_training
MockSteps == 7

\* _update_status does a blocking requests.put and swallows its failure: it
\* never suspends and never raises; the status is what the backend is told
report(job_id, status) == [reported EXCEPT ![job_id] = status]

\* start_training: without the dataset it reports "failed" and raises; with
\* it, it reports "running", registers the job and makes the task (the LoRA
\* one for a model type with "lora" in it when the trainer can be imported,
\* the mock one otherwise).  Nothing of the task has run when it returns.
start_training(job_id, kind, dataset_exists) ==
    /\ tasks[job_id].pc = "none"
    /\ ~dataset_exists => kind = "mock"
    /\ IF dataset_exists
       THEN /\ reported' = report(job_id, "running")
            /\ active_trainings' = put(active_trainings, job_id, "running")
            /\ tasks' = [tasks EXCEPT ![job_id] =
                             [kind |-> kind, pc |-> "created", step |-> 0]]
       ELSE /\ reported' = report(job_id, "failed")
            /\ active_trainings' = pop(active_trainings, job_id)
            /\ tasks' = [tasks EXCEPT ![job_id] =
                             [kind |-> None, pc |-> "not_started", step |-> 0]]
    /\ UNCHANGED <<cancelled_jobs, cancel_true, beside_training>>

\* _run_mock_training from where it is suspended to its next
\* "await asyncio.sleep(2)" or to its end: one turn of the loop over
\* progress_steps, or what follows the loop
mock_step(job_id, files_raise) ==
    /\ tasks[job_id].kind = "mock"
    /\ tasks[job_id].pc \in {"created", "sleeping"}
    /\ tasks[job_id].step < MockSteps => ~files_raise
    /\ IF tasks[job_id].step < MockSteps
       THEN IF job_id \in cancelled_jobs
            THEN /\ reported' = report(job_id, "cancelled")
                 /\ cancelled_jobs' = cancelled_jobs \ {job_id}
                 /\ tasks' = [tasks EXCEPT ![job_id].pc = "returned"]
                 /\ UNCHANGED active_trainings
            ELSE /\ reported' = report(job_id, "running")
                 /\ tasks' = [tasks EXCEPT ![job_id].pc = "sleeping",
                                           ![job_id].step = @ + 1]
                 /\ UNCHANGED <<cancelled_jobs, active_trainings>>
       ELSE IF files_raise
            THEN \* _create_adapter_files raises out of the task
                 /\ tasks' = [tasks EXCEPT ![job_id].pc = "raised"]
                 /\ UNCHANGED <<reported, cancelled_jobs, active_trainings>>
            ELSE /\ reported' = report(job_id, "completed")
                 /\ active_trainings' = pop(active_trainings, job_id)
                 /\ tasks' = [tasks EXCEPT ![job_id].pc = "returned"]
                 /\ UNCHANGED cancelled_jobs
    /\ UNCHANGED <<cancel_true, beside_training>>

\* _run_lora_training up to "await loop.run_in_executor(None, trainer.train)";
\* when LoRATrainer(...) raises: "failed", and the finally pops the job
lora_begin(job_id, ctor_raises) ==
    /\ tasks[job_id].kind = "lora"
    /\ tasks[job_id].pc = "created"
    /\ IF ctor_raises
       THEN /\ reported' = report(job_id, "failed")
            /\ active_trainings' = pop(active_trainings, job_id)
            /\ tasks' = [tasks EXCEPT ![job_id].pc = "returned"]
       ELSE /\ tasks' = [tasks EXCEPT ![job_id].pc = "training"]
            /\ UNCHANGED <<reported, active_trainings>>
    /\ UNCHANGED <<cancelled_jobs, cancel_true, beside_training>>

\* what trainer.train comes back with
TrainResults == {"success", "no_success", "raise"}

\* _run_lora_training after the executor: "completed" on success, "failed"
\* otherwise, and the finally pops the job
lora_finish(job_id, train_result) ==
    /\ tasks[job_id].kind = "lora"
    /\ tasks[job_id].pc = "training"
    /\ reported' = report(job_id, IF train_result = "success" THEN "completed"
                                  ELSE "failed")
    /\ active_trainings' = pop(active_trainings, job_id)
    /\ tasks' = [tasks EXCEPT ![job_id].pc = "returned"]
    /\ UNCHANGED <<cancelled_jobs, cancel_true, beside_training>>

\* cancel_training: True for a job in active_trainings, False otherwise
cancel_training(job_id) ==
    /\ IF job_id \in DOMAIN active_trainings
       THEN /\ cancelled_jobs' = cancelled_jobs \cup {job_id}
            /\ active_trainings' = [active_trainings EXCEPT ![job_id] = "cancelled"]
            /\ cancel_true' = cancel_true \cup {job_id}
       ELSE UNCHANGED <<cancelled_jobs, active_trainings, cancel_true>>
    /\ UNCHANGED <<tasks, reported, beside_training>>

\* get_training_status(job_id)["status"]
get_training_status(job_id) ==
    IF job_id \in DOMAIN active_trainings THEN active_trainings[job_id]
    ELSE "not_found"

(* ------------------------- context assembly --------------------------- *)
\* the ChatMessage values of request.conversation_context
Turns == {[role |-> "user", content |-> "q1"],
          [role |-> "assistant", content |-> "r1"],
          [role |-> "user", content |-> "q2"]}
MaxHistory == 6
Histories == UNION {[1..n -> Turns] : n \in 0..MaxHistory}

\* conversation_context[-5:] of the text path, conversation_context[-2:] of
\* the vision branch
TextHistoryCap == 5
VisionHistoryCap == 2

\* a variant that keeps the oldest turns
last_turns_from_start(history, n) ==
    SubSeq(history, 1, IF Len(history) < n THEN Len(history) ELSE n)

\* history[-n:]
last_turns(history, n) ==
    SubSeq(history, IF Len(history) < n THEN 1 ELSE Len(history) - n + 1,
           Len(history))

\* messages of the text path: the system message, the last turns, final_prompt
text_messages(history) ==
    <<[role |-> "system", content |-> "system_msg"]>>
    \o last_turns(history, TextHistoryCap)
    \o <<[role |-> "user", content |-> "final_prompt"]>>

\* vision_messages of the vision branch: the last turns and the question
\* about the image
vision_messages(history) ==
    last_turns(history, VisionHistoryCap)
    \o <<[role |-> "user", content |-> "analyze_image_and_message"]>>

\* the handler builds the message list of one request
build_messages(path, history) ==
    /\ fn_call' = [op |-> "build_messages", path |-> path, history |-> history,
                   messages |-> IF path = "vision" THEN vision_messages(history)
                                ELSE text_messages(history)]
    /\ UNCHANGED beside_fn

(* -------------------------- specifications ---------------------------- *)
\* ModelManager.__init__ of model_manager.py sets no loaded_models; the one
\* of "model_manager copy 2.py" sets it to {}.  main.py keeps its manager only
\* if get_embedding_model() succeeds on it, which the copy does not have.
Init ==
    /\ has_loaded_models \in BOOLEAN
    /\ mm_HAS_ML_DEPS \in BOOLEAN
    /\ inf_HAS_ML_DEPS \in BOOLEAN
    /\ on_disk \in {{}, {"trained/x"}, Paths}
    /\ loaded_models = EmptyDict
    /\ services = <<>>
    /\ held = {}
    /\ last = NoCall
    /\ model_manager \in BOOLEAN
    /\ model_manager => ~has_loaded_models
    /\ request = NoRequest
    /\ response = NoResponse
    /\ rag_call = NoRagCall
    /\ stream = NoStream
    /\ other_stream = NoStream
    /\ vision = NoVision
    /\ active_trainings = EmptyDict
    /\ cancelled_jobs = {}
    /\ tasks = [job_id \in JobIds |-> NoTask]
    /\ reported = [job_id \in JobIds |-> None]
    /\ cancel_true = {}
    /\ fn_call = NoFnCall
    /\ conversations = EmptyDict
    /\ added = [session_id \in Sessions |-> 0]

NextAdapter ==
    \/ \E p \in Paths, b \in BaseModels, x \in BOOLEAN : load_lora_adapter(p, b, x)
    \/ \E id \in ModelIds : unload_model(id)
    \/ \E id \in ModelIds : get(id)
    \/ \E s \in held : drop(s)
    \/ \E s \in held, f \in LoadFailures, g \in GenOutcomes : generate_response(s, f, g)
    \/ \E s \in held, x \in BOOLEAN : service_unload_model(s, x)

SpecAdapter == Init /\ [][NextAdapter]_vars

\* N callers that only ask for loads and generations: nothing is unloaded
NextLoad ==
    \/ \E p \in Paths, b \in BaseModels, x \in BOOLEAN : load_lora_adapter(p, b, x)
    \/ \E id \in ModelIds : get(id)
    \/ \E s \in held, f \in LoadFailures, g \in GenOutcomes : generate_response(s, f, g)

SpecLoad == Init /\ [][NextLoad]_vars

\* one /chat request, in a deployment where the adapter trained/x can be served
InitRouter ==
    /\ Init
    /\ mm_HAS_ML_DEPS
    /\ inf_HAS_ML_DEPS
    /\ on_disk = {"trained/x"}

\* the model follows one request at a time: requests share no state
NextRouter ==
    /\ request = NoRequest
    /\ \E r \in Requests :
           IF image_url(r) # None
           THEN \E d \in Downloads, l \in ModelLists, v \in ChatCalls :
                    enhanced_chat_endpoint(r, d, l, v, AnyRagRun, "ok")
           ELSE \E g \in RouterRagRuns, c \in ChatCalls :
                    enhanced_chat_endpoint(r, "200", "vision", "ok", g, c)

SpecRouter == InitRouter /\ [][NextRouter]_vars

\* calls of get_rag_response on a manager that main.py kept
InitRag ==
    /\ InitRouter
    /\ model_manager

\* the model follows one call at a time: get_rag_response keeps nothing
\* from one call to the next
NextRag ==
    /\ rag_call = NoRagCall
    /\ \E prompt \in Messages, g \in RagRuns : rag_query(prompt, g)

SpecRag == InitRag /\ [][NextRag]_vars

\* requests of two sessions that add to the memory and read it
NextMemory ==
    \/ \E session_id \in Sessions : add_message(session_id)
    \/ \E session_id \in Sessions : get_conversation(session_id)

\* the requests of two sessions, one answered after the other
NextTurns ==
    \/ \E session_id \in Sessions, has_text \in BOOLEAN :
          document_request(session_id, has_text)
    \/ \E failed \in BOOLEAN : document_stream_over(failed)
    \/ \E session_id \in Sessions, kind \in {"text", "image"}, failed \in BOOLEAN :
          two_turns_at_end(session_id, kind, failed)

\* one call of should_use_rag: it keeps nothing from one call to the next
NextGate ==
    /\ fn_call = NoFnCall
    /\ \E query \in Queries : ask_should_use_rag(query)

\* one listing of the adapters on disk
NextList ==
    /\ fn_call = NoFnCall
    /\ \E root \in Roots : list_adapters(root)

\* the message list of one request
NextContext ==
    /\ fn_call = NoFnCall
    /\ \E path \in {"text", "vision"}, history \in Histories :
           build_messages(path, history)

\* one response stream, from the first iteration to its end
NextStream ==
    \/ \E gen \in Forwarders \cup Aggregators : open_stream(gen)
    \/ \E content \in Strings : next_chunk(content)
    \/ end_of_stream
    \/ stream_error
    \/ error_response
    \/ \E out \in RagOuts, answer \in Strings : stream_rag_response(out, answer)
    \/ \E outcome \in BlipOutcomes, content \in Strings : blip_response(outcome, content)

InitStream ==
    /\ InitRouter
    /\ model_manager

SpecStream == InitStream /\ [][NextStream]_vars

\* two responses in flight, the caller of the first one may stop iterating
\* it; the texts are short ones
InFlightGens == {"stream_ollama_response", "llama_response"}
MaxInFlightLen == 2
ShortStrings == UNION {[1..n -> {"a", " "}] : n \in 0..MaxInFlightLen}

NextCancel ==
    \/ \E gen \in InFlightGens : open_stream(gen)
    \/ \E content \in ShortStrings :
          /\ Len(stream.received) + Len(content) <= MaxInFlightLen
          /\ next_chunk(content)
    \/ end_of_stream
    \/ stream_error
    \/ \E content \in ShortStrings, k \in 0..MaxInFlightLen :
          /\ Len(stream.received) + Len(content) <= MaxInFlightLen
          /\ stop_consuming(content, k)
    \/ \E gen \in InFlightGens : other_open(gen)
    \/ \E content \in ShortStrings :
          /\ Len(other_stream.received) + Len(content) <= MaxInFlightLen
          /\ other_chunk(content)
    \/ other_end
    \/ other_error

SpecCancel == InitStream /\ [][NextCancel]_vars

\* one /chat request and, when it took the retrieval path, the response
\* stream_rag_response makes of the text get_rag_response returned
NextAnswer ==
    \/ NextRouter
    \/ /\ response.branch = "rag"
       /\ \E answer \in ShortStrings :
             stream_rag_response(response.rag.out, answer)

SpecAnswer == InitRouter /\ [][NextAnswer]_vars

\* the vision branch of one image request
NextVision ==
    \/ \E download \in Downloads : vision_download(download)
    \/ \E models \in ModelLists : vision_list(models)
    \/ \E vision_chat \in ChatCalls : vision_call(vision_chat)
    \/ vision_first_next
    \/ \E content \in Strings : vision_chunk(content)
    \/ vision_end
    \/ vision_stream_error
    \/ vision_stop_streaming
    \/ vision_stop_unstarted

SpecVision == InitStream /\ [][NextVision]_vars

\* the handler and the generator go on as long as they have a step to take:
\* each await of the branch returns or raises, and the backend stream ends
SpecVisionFair == SpecVision /\ WF_vars(NextVision)

\* two aggregators side by side, each fed its own chunks
MaxPairLen == 3
PairStrings == UNION {[1..n -> {"a", " "}] : n \in 0..MaxPairLen}

NextPair ==
    \/ \E gen \in Aggregators : open_stream(gen)
    \/ \E content \in PairStrings :
          /\ Len(stream.received) + Len(content) <= MaxPairLen
          /\ next_chunk(content)
    \/ end_of_stream
    \/ \E gen \in Aggregators : other_open(gen)
    \/ \E content \in PairStrings :
          /\ Len(other_stream.received) + Len(content) <= MaxPairLen
          /\ other_chunk(content)
    \/ other_end

SpecPair == InitStream /\ [][NextPair]_vars

\* the training jobs: their starts, the steps of their tasks, cancellations
NextTraining ==
    \/ \E job_id \in JobIds, kind \in {"mock", "lora"}, dataset_exists \in BOOLEAN :
          start_training(job_id, kind, dataset_exists)
    \/ \E job_id \in JobIds, files_raise \in BOOLEAN : mock_step(job_id, files_raise)
    \/ \E job_id \in JobIds, ctor_raises \in BOOLEAN : lora_begin(job_id, ctor_raises)
    \/ \E job_id \in JobIds, train_result \in TrainResults :
          lora_finish(job_id, train_result)
    \/ \E job_id \in JobIds : cancel_training(job_id)

SpecTraining == InitStream /\ [][NextTraining]_vars

\* a task that has been made runs: the event loop resumes it after each
\* sleep, and trainer.train comes back
TaskSteps ==
    \/ \E job_id \in JobIds, files_raise \in BOOLEAN : mock_step(job_id, files_raise)
    \/ \E job_id \in JobIds, ctor_raises \in BOOLEAN : lora_begin(job_id, ctor_raises)
    \/ \E job_id \in JobIds, train_result \in TrainResults :
          lora_finish(job_id, train_result)

SpecTrainingFair == SpecTraining /\ WF_vars(TaskSteps)

SpecTurns == InitStream /\ [][NextTurns]_vars

SpecContext == InitStream /\ [][NextContext]_vars

SpecMemory == InitStream /\ [][NextMemory]_vars

SpecGate == InitStream /\ [][NextGate]_vars

SpecList == InitStream /\ [][NextList]_vars

(* ------------------------------ properties ---------------------------- *)
\* the adapter directory a model id names
PathOf(model_id) == CHOOSE p \in Paths : ModelId(p) = model_id

\* all of model, tokenizer and generator are there and the service says loaded
FullyLoaded(svc) ==
    svc.is_loaded /\ svc.model # None /\ svc.tokenizer # None /\ svc.generator # None

\* model, tokenizer and generator are gone and the service says not loaded
Released(svc) ==
    ~svc.is_loaded /\ svc.model = None /\ svc.tokenizer = None /\ svc.generator = None

\* the services constructed for the adapter at adapter_path
ServicesFor(adapter_path) ==
    {s \in DOMAIN services : services[s].lora_path = adapter_path}

\* C1: load requests for one adapter id, however many callers issue them and
\* however they interleave, lead to exactly one load: unless the call fails on
\* its own input (missing dependencies, missing directory, a constructor that
\* raises), it returns success, the id is in the registry, one service exists
\* for the adapter, and that one service is the handle every caller gets.
C1_SingleFlight ==
    (/\ last.op = "load_lora_adapter"
     /\ last.out \notin {"raised_ImportError", "raised_FileNotFoundError", "raised_init"})
    => /\ last.out \in {"loaded", "already_loaded"}
       /\ last.arg \in DOMAIN loaded_models
       /\ Cardinality(ServicesFor(PathOf(last.arg))) = 1
       /\ ServicesFor(PathOf(last.arg)) = {loaded_models[last.arg].service}

C3_FailedLoadRevertsToAbsent ==
    [][/\ \A p \in Paths, b \in BaseModels :
            (load_lora_adapter(p, b, TRUE) /\ last'.out = "raised_init")
            => ModelId(p) \notin DOMAIN loaded_models'
       /\ \A s \in held, f \in LoadFailures, g \in GenOutcomes :
            (generate_response(s, f, g) /\ last'.out = "error_load")
            => /\ ~services'[s].is_loaded
               /\ \A id \in DOMAIN loaded_models' : loaded_models'[id].service # s]_vars

\* C4: unload_model on an id that is loaded returns success and takes the id
\* out of the registry, and unload_model on the same id right after it returns
\* "Model not found"; neither reports "Unload failed".
C4_UnloadTwice ==
    [][last'.op = "unload_model" =>
          /\ last'.arg \in DOMAIN loaded_models => last'.out = "success"
          /\ last'.out = "success" => last'.arg \notin DOMAIN loaded_models'
          /\ last'.again => last'.out = "not_found"]_vars

\* the second of two unloads of one id has answered "Model not found"
C4_Witness ==
    /\ last.op = "unload_model"
    /\ last.again
    /\ last.out = "not_found"

\* C5: load_lora_adapter for an id that is in the registry returns the
\* "already loaded" success, constructs no service and leaves the registry as
\* it is, whatever base_model the call names.
C5_LoadOfLoadedIsNoop ==
    [][(last'.op = "load_lora_adapter" /\ last'.arg \in DOMAIN loaded_models)
       => /\ last'.out = "already_loaded"
          /\ loaded_models' = loaded_models
          /\ services' = services]_vars

\* a load naming another base_model than the entry's has answered "already loaded"
C5_Witness ==
    /\ last.op = "load_lora_adapter"
    /\ last.out = "already_loaded"
    /\ last.arg \in DOMAIN loaded_models
    /\ last.base # loaded_models[last.arg].base_model

\* C6: a generate_response, also one that runs right after an unload of its
\* service, never uses a generator or tokenizer that was let go: when the
\* generator ran (text, empty text, or an error inside generation) the service
\* is fully loaded, and every other result is one the service returns itself.
C6_GenerationNeverUsesReleased ==
    last.op = "generate_response" =>
       /\ last.out # "error_none_deref"
       /\ last.out \in {"text", "empty", "error_generate"}
          => FullyLoaded(services[last.svc])
       /\ last.out \notin {"text", "empty", "error_generate"}
          => last.out \in {"error_load", "mock_no_deps", "mock_failed_to_load",
                            "mock_not_fully_loaded"}

\* a generation right after the unload of its service has returned text
C6_Witness ==
    /\ last.op = "generate_response"
    /\ last.again
    /\ last.out = "text"

\* C7: when ModelManager.unload_model returns success the entry is gone and
\* the backend is released: the service has no model, tokenizer or generator
\* and says not loaded.
C7_UnloadReleasesBackend ==
    [][\A id \in ModelIds :
          (unload_model(id) /\ last'.out = "success")
          => /\ id \notin DOMAIN loaded_models'
             /\ Released(services'[loaded_models[id].service])]_vars

\* a load of the adapter followed by the first _ensure_loaded gives a loaded
\* service: the manager can produce a ready handle for adapter_id
CanProduceReadyHandle(adapter_id) ==
    LET r == load_adapter(PathOf(adapter_id), "llama3", FALSE)
    IN /\ r.out \in {"loaded", "already_loaded"}
       /\ ensure_loaded(r.services[r.loaded_models[adapter_id].service], "ok").svc.is_loaded

\* the calls enhanced_chat_endpoint made for the request
Called(call) == \E i \in DOMAIN response.calls : response.calls[i] = call

\* the request has the text of a document with it
HasDocumentText == request.type = "document" /\ request.extractedText \notin {None, ""}

\* C8: a request with an adapter id the manager can produce a ready handle for
\* is answered by the adapter backend (LoRAInferenceService.generate_response),
\* whatever its type, file fields and retrieval decision.
C8_AdapterBackendSelected ==
    (/\ response # NoResponse
     /\ request.adapter_id # None
     /\ CanProduceReadyHandle(request.adapter_id))
    => Called("generate_response")

\* C9: a request with no adapter id, of type "document" and with extracted text
\* gets the document prompt sent to the text backend, and neither the retrieval
\* path nor the vision backend is used, whatever else the request carries.
C9_DocumentBranch ==
    (/\ response # NoResponse
     /\ request.adapter_id = None
     /\ HasDocumentText)
    => /\ response.branch = "document"
       /\ response.final_prompt = "document_prompt"
       /\ response.calls = <<"chat">>

\* C10: a request with no adapter id and no document text whose message the
\* retrieval decision accepts is answered by the retrieval path, also when it
\* is an image upload; the vision branch is taken only when the adapter, the
\* document and the retrieval preconditions all fail.
C10_RetrievalBeforeVision ==
    /\ (/\ response # NoResponse
        /\ request.adapter_id = None
        /\ request.extractedText \in {None, ""}
        /\ chat_should_use_rag(request))
       => /\ response.branch = "rag"
          /\ response.calls = <<"get_rag_response">>
    /\ response.branch = "vision"
       => /\ request.adapter_id = None \/ ~CanProduceReadyHandle(request.adapter_id)
          /\ ~HasDocumentText
          /\ ~chat_should_use_rag(request)

\* the backend a branch of the handler answers with: the four ways into the
\* plain text backend count as one
BranchClass(branch) ==
    IF branch \in {"general", "rag_unavailable", "context_instruction", "text"}
    THEN "text" ELSE branch

\* the branch the handler takes for request r
selected_branch(r) ==
    IF image_url(r) # None THEN "vision"
    ELSE BranchClass(text_branch(r, AnyRagRun, "ok").branch)

\* adapter id presence, adapter-ready state, request type, extracted-text
\* presence and the retrieval decision of request r
RoutingInputs(r) ==
    <<r.adapter_id # None,
      r.adapter_id # None /\ CanProduceReadyHandle(r.adapter_id),
      r.type,
      r.extractedText \notin {None, ""},
      chat_should_use_rag(r)>>

\* C11: the branch a request is answered by depends on nothing but its adapter
\* id presence, the adapter-ready state, its type, its extracted-text presence
\* and the retrieval decision: every request that agrees with the served one
\* on these five is answered by the same branch, whatever its file name, URLs
\* and context fields.
C11_BranchDependsOnFiveInputs ==
    response # NoResponse
    => \A r \in Requests :
          RoutingInputs(r) = RoutingInputs(request)
          => selected_branch(r) = BranchClass(response.branch)

\* a text request with no file reference, no adapter id, no extracted text and
\* a retrieval decision that says no
PlainTextRequest ==
    /\ request.type = "text"
    /\ request.fileUrl = None
    /\ request.contextFileUrl = None
    /\ request.imageUrl = None
    /\ request.adapter_id = None
    /\ request.extractedText \in {None, ""}
    /\ ~chat_should_use_rag(request)

\* the request names an adapter that is not on storage
UnknownAdapter ==
    /\ response # NoResponse
    /\ request.adapter_id # None
    /\ PathOf(request.adapter_id) \notin on_disk

\* C12: a request of type "text" with no file reference, no adapter id, no
\* extracted text and a retrieval decision that says no is answered by the
\* plain text backend alone: client.chat is called once, and neither the
\* vision backend nor get_rag_response is called.
C12_PlainTextOnly ==
    (response # NoResponse /\ PlainTextRequest)
    => /\ BranchClass(response.branch) = "text"
       /\ response.calls = <<"chat">>
       /\ response.rag = NoRag
       /\ response.image_url = None

\* a plain text request that talks about a picture and names an image file
\* has been streamed from the text backend
C12_Witness ==
    /\ PlainTextRequest
    /\ request.message = "show me the picture"
    /\ request.fileName = "photo.png"
    /\ response.calls = <<"chat">>
    /\ response.out = "ollama_stream"

C14_EmptyStoreGuidance ==
    (rag_call # NoRagCall /\ rag_call.run.count = "zero")
    => /\ rag_call.rag.out = "no_documents"
       /\ rag_call.rag.calls = <<"count">>
       /\ rag_call.rag.note = NoNote

\* a query the retrieval decision accepts has been answered from an empty store
C14_Witness ==
    /\ rag_call.prompt = "what is the pricing"
    /\ rag_call.run.count = "zero"
    /\ rag_call.rag.out = "no_documents"

\* the texts of the fragments, one after the other
RECURSIVE Concat(_)
Concat(fragments) ==
    IF fragments = <<>> THEN <<>>
    ELSE Head(fragments).text \o Concat(Tail(fragments))

\* the places of the error fragments in what the stream yielded
ErrorFragments == {i \in DOMAIN stream.emitted : stream.emitted[i].kind = "error"}

\* C15: when the vision backend of an image request fails (it cannot be
\* reached, the call fails, or the stream fails while it is iterated) the
\* response is one error fragment and nothing else: no caption text before it.
C15_VisionFailureIsOneFragment ==
    (/\ stream.gen \in {"stream_vision_response", "blip_response"}
     /\ stream.status = "failed")
    => stream.emitted = <<Error(ErrorText)>>

\* C16: when the backend stream of an aggregator is over, the fragments it
\* yielded, put together, are the text the backend streamed, character for
\* character, whatever the chunks were.
C16_RoundTrip ==
    (stream.gen \in Aggregators /\ stream.status = "ended")
    => Concat(stream.emitted) = stream.received

\* C17: while the backend stream goes on, every fragment an aggregator has
\* yielded is a word followed by one space, with no other space in it, and the
\* text after the last space is held back in word_buffer.
C17_WordBoundaries ==
    (stream.gen \in Aggregators /\ stream.status = "running")
    => /\ \A i \in DOMAIN stream.emitted :
             LET f == stream.emitted[i]
             IN /\ f.kind = "text"
                /\ Len(f.text) >= 1
                /\ f.text[Len(f.text)] = " "
                /\ \A j \in 1..(Len(f.text) - 1) : f.text[j] # " "
       /\ \A j \in DOMAIN stream.word_buffer : stream.word_buffer[j] # " "
       /\ Concat(stream.emitted) \o stream.word_buffer = stream.received

\* two words are out and the beginning of a third is held back
C17_Witness ==
    /\ stream.gen \in Aggregators
    /\ stream.status = "running"
    /\ Len(stream.emitted) >= 2
    /\ stream.emitted[1].text = <<"a", " ">>
    /\ stream.word_buffer = <<"a">>

\* C18: when the backend stream of an aggregator ends with a partial word in
\* word_buffer, that remainder is the last fragment of the response.
C18_LastWordFlushed ==
    (/\ stream.gen \in Aggregators
     /\ stream.status = "ended"
     /\ strip(stream.word_buffer) # <<>>)
    => /\ stream.emitted # <<>>
       /\ stream.emitted[Len(stream.emitted)] = Text(stream.word_buffer)
       /\ Concat(stream.emitted) = stream.received

\* a stream has ended two words after its first one, the last one without a
\* space after it
C18_Witness ==
    /\ stream.gen \in Aggregators
    /\ stream.status = "ended"
    /\ Len(stream.emitted) = 3
    /\ stream.emitted[3] = Text(<<"a">>)

\* C19: when the backend of a response fails, before or while it streams, the
\* response ends with one error fragment that holds the whole error message:
\* no other fragment is an error fragment.
C19_OneErrorFragment ==
    stream.status = "failed"
    => /\ ErrorFragments = {Len(stream.emitted)}
       /\ stream.emitted[Len(stream.emitted)] = Error(ErrorText)

\* the vision backend or the retrieval path failed for the request
BackendFailed ==
    \/ /\ response.branch = "vision"
       /\ response.out \in {"vision_call_failed", "error_checking_models",
                            "no_vision_model"}
    \/ /\ response.branch = "rag"
       /\ response.rag.out \in {"database_trouble", "retrieval_error",
                                "generation_error"}

\* C20: when the vision backend or the retrieval path fails for a request, the
\* plain text backend, which has a lower priority and is there for every
\* request, is called once for it.
C20_RetryOnLowerPriority ==
    BackendFailed
    => Cardinality({i \in DOMAIN response.calls : response.calls[i] = "chat"}) = 1

\* how many times the handler called this backend for the request
CallsTo(backend) ==
    Cardinality({i \in DOMAIN response.calls : response.calls[i] = backend})

\* C21: within one request every backend (the text backend, the vision backend,
\* the retrieval path) is called at most twice, and a failed call of the text
\* or the vision backend ends the request with an error fragment: there is no
\* retry loop.
C21_NoRetryLoop ==
    /\ \A backend \in {"chat", "vision_chat", "get_rag_response"} :
          CallsTo(backend) <= 2
    /\ response.out \in {"ai_service_unavailable", "vision_call_failed"}
       => /\ CallsTo("chat") + CallsTo("vision_chat") = 1
          /\ response.calls[Len(response.calls)] \in {"chat", "vision_chat"}

\* the text backend has failed for a document request after its one call
C21_Witness ==
    /\ response.out = "ai_service_unavailable"
    /\ response.calls = <<"chat">>
    /\ request.type = "document"

\* the message list of the last build_messages and the cap of its path
Built == fn_call.op = "build_messages"
Cap == IF fn_call.path = "vision" THEN VisionHistoryCap ELSE TextHistoryCap
Kept == IF Len(fn_call.history) < Cap THEN Len(fn_call.history) ELSE Cap

\* C22 as stated: on every path the message list is the system preamble, the
\* last min(N, len) turns of the history in their order, and the current
\* message.
C22_SystemHistoryCurrent ==
    Built
    => /\ Len(fn_call.messages) = Kept + 2
       /\ fn_call.messages[1].role = "system"
       /\ \A i \in 1..Kept :
             fn_call.messages[i + 1]
             = fn_call.history[Len(fn_call.history) - Kept + i]
       /\ fn_call.messages[Kept + 2].role = "user"

\* C22: the message list is the last min(N, len) turns of the history, in
\* their order and once each, followed by the current message; on the text
\* path (N = 5) the system preamble comes first, on the vision path (N = 2)
\* there is no system preamble.  Its length never exceeds N + 2.
C22_ContextWindow ==
    Built
    => LET lead == IF fn_call.path = "vision" THEN 0 ELSE 1
       IN /\ Len(fn_call.messages) = lead + Kept + 1
          /\ Len(fn_call.messages) <= Cap + 2
          /\ lead = 1 => fn_call.messages[1]
                          = [role |-> "system", content |-> "system_msg"]
          /\ \A i \in 1..Kept :
                fn_call.messages[lead + i]
                = fn_call.history[Len(fn_call.history) - Kept + i]
          /\ fn_call.messages[lead + Kept + 1].role = "user"
          /\ fn_call.messages[lead + Kept + 1].content
             \in {"final_prompt", "analyze_image_and_message"}

\* a history longer than the cap has been cut to its last five turns
C22_Witness ==
    /\ Built
    /\ fn_call.path = "text"
    /\ Len(fn_call.history) = 6
    /\ fn_call.history[1] # fn_call.history[2]
    /\ Len(fn_call.messages) = 7

\* the ids of the last n of the k messages added to a session, in arrival order
MostRecent(n, k) == [i \in 1..n |-> [id |-> k - n + i]]

\* C23: after any sequence of add_message calls every session's history has at
\* most 20 messages and is the most recent min(20, k) of the k messages added
\* to it, in arrival order.
C23_HistoryBounded ==
    \A session_id \in Sessions :
       LET k == added[session_id]
       IN IF session_id \in DOMAIN conversations
          THEN /\ Len(conversations[session_id]) <= HistoryLimit
               /\ conversations[session_id]
                  = MostRecent(IF k < HistoryLimit THEN k ELSE HistoryLimit, k)
          ELSE k = 0

\* a session has had 22 messages and has lost its two oldest ones
C23_Witness ==
    /\ "s1" \in DOMAIN conversations
    /\ added["s1"] = 22
    /\ Len(conversations["s1"]) = 20
    /\ conversations["s1"][1] = [id |-> 3]

\* C24: add_message changes the history of its own session only, the other
\* sessions stay as they are (also the ones that do not exist yet), and
\* get_conversation returns the history, or an empty one, and changes nothing.
C24_OwnSessionOnly ==
    [][/\ fn_call'.op = "add_message"
          => \A other \in Sessions \ {fn_call'.session_id} :
                /\ other \in DOMAIN conversations' <=> other \in DOMAIN conversations
                /\ other \in DOMAIN conversations
                   => conversations'[other] = conversations[other]
       /\ fn_call'.op = "get_conversation"
          => /\ conversations' = conversations
             /\ fn_call'.out = IF fn_call'.session_id \in DOMAIN conversations
                               THEN conversations[fn_call'.session_id] ELSE <<>>]_vars

\* a session that has no history has been read while the other one was full
C24_Witness ==
    /\ fn_call.op = "get_conversation"
    /\ fn_call.session_id = "s2"
    /\ fn_call.out = <<>>
    /\ "s2" \notin DOMAIN conversations
    /\ "s1" \in DOMAIN conversations
    /\ Len(conversations["s1"]) = 20

\* the query of the last should_use_rag has a greeting pattern in it
HasGreeting ==
    \E greeting \in greeting_patterns :
       contains(lower(TextOf(fn_call.query)), greeting)

\* the query has an indicator term or a question pattern in it
HasPositiveMatch ==
    \/ \E indicator \in rag_indicators :
          contains(lower(TextOf(fn_call.query)), indicator)
    \/ \E pattern \in question_patterns :
          contains(lower(TextOf(fn_call.query)), pattern)

\* C25: should_use_rag returns false for every query of fewer than 5 words
\* that has a greeting pattern in it, whatever indicator terms and question
\* patterns it has as well, and its result is the one the query text gives.
C25_GreetingPrecedence ==
    fn_call.op = "should_use_rag"
    => /\ (Len(fn_call.query) < 5 /\ HasGreeting) => ~fn_call.out
       /\ ~(Len(fn_call.query) < 5 /\ HasGreeting)
          => (fn_call.out => HasPositiveMatch)

\* a greeting of four words that asks for a price has been turned down
C25_Witness ==
    /\ fn_call.op = "should_use_rag"
    /\ fn_call.query = <<"Hello", "tell", "me", "price">>
    /\ HasPositiveMatch
    /\ ~fn_call.out

\* the last get_rag_response went through a failing step
RagStepFailed ==
    \/ rag_call.run.count = "raise"
    \/ rag_call.run.retrieval_raises
    \/ rag_call.run.generation_raises

\* C26: when count(), the retriever or the QA chain fails, get_rag_response
\* returns the error text of that step (it returns on every path, so nothing
\* is raised), the text is not an answer, and no step after the failed one is
\* made.
C26_FailureIsErrorString ==
    rag_call # NoRagCall
    => /\ rag_call.run.count = "raise"
          => /\ rag_call.rag.out = "database_trouble"
             /\ rag_call.rag.calls = <<"count">>
       /\ rag_call.run.retrieval_raises
          => /\ rag_call.rag.out = "retrieval_error"
             /\ rag_call.rag.calls = <<"count", "get_relevant_documents">>
       /\ rag_call.run.generation_raises
          => /\ rag_call.rag.out = "generation_error"
             /\ rag_call.rag.calls = <<"count", "get_relevant_documents", "qa_chain">>
       /\ RagStepFailed => rag_call.rag.note = NoNote
       /\ rag_call.rag.out \in {"database_trouble", "no_documents", "retrieval_error",
                                "no_relevant_documents", "generation_error", "answer"}

\* the retriever has raised and the chain was not called
C26_Witness ==
    /\ rag_call.prompt = "what is the pricing"
    /\ rag_call.run.retrieval_raises
    /\ rag_call.rag.out = "retrieval_error"

\* the chunks the answer of the last get_rag_response is from: the
\* "source_documents" of the chain's result, or else the retrieved ones
SourceDocs ==
    IF rag_call.run.has_source_documents THEN rag_call.run.source_documents
    ELSE rag_call.run.relevant_docs
KnownIds == {SourceDocs[i] : i \in DOMAIN SourceDocs} \ {"unknown"}

\* C27: an answer of get_rag_response ends with one source note: when a source
\* chunk has a known doc_id the note names the distinct known doc_ids of the
\* source chunks, and when there are source chunks and none has a known doc_id
\* the note gives the number of source chunks.
C27_ProvenanceNote ==
    (rag_call # NoRagCall /\ rag_call.rag.out = "answer")
    => /\ rag_call.rag.note.kind \in {"doc_ids", "sections", "general_knowledge"}
       /\ KnownIds # {}
          => /\ rag_call.rag.note.kind = "doc_ids"
             /\ rag_call.rag.note.ids = KnownIds
       /\ (SourceDocs # <<>> /\ KnownIds = {})
          => /\ rag_call.rag.note.kind = "sections"
             /\ rag_call.rag.note.n = Len(SourceDocs)

\* the chain used the same document twice and not the ones retrieved
C27_Witness ==
    /\ rag_call.rag.out = "answer"
    /\ rag_call.run.relevant_docs = <<"d2", "unknown">>
    /\ rag_call.run.source_documents = <<"d1", "d1">>
    /\ rag_call.rag.note = [kind |-> "doc_ids", ids |-> {"d1"}, n |-> 0]

\* the fragments generator st owes for the text its own backend has streamed:
\* a forwarder the text itself, piece by piece; an aggregator each completed
\* word with its space and, once the backend stream is over, what flush yields
InOrder(st) ==
    IF st.gen \in Forwarders
    THEN /\ \A i \in DOMAIN st.emitted : st.emitted[i].kind = "text"
         /\ Concat(st.emitted) = st.received
    ELSE LET words == split(st.received)
             complete == [i \in 1..(Len(words) - 1) |-> Append(words[i], " ")]
         IN st.emitted =
              Texts(complete \o (IF st.status = "ended"
                                 THEN flush(words[Len(words)]) ELSE <<>>))

\* C28: once the caller of a response has stopped iterating it, the stream
\* yields no further fragment; no step of that stream, the stop included,
\* touches the other response in flight, which has yielded the fragments of
\* its own text in order and whose backend stream can still come to its end.
C28_StoppedStreamStopsAlone ==
    /\ [][stream.status = "cancelled" => stream' = stream]_vars
    /\ [][stream' # stream => other_stream' = other_stream]_vars
    /\ [](other_stream.status \in {"running", "ended"} => InOrder(other_stream))
    /\ [](other_stream.status = "running" => ENABLED other_end)

\* the first response was stopped between the two fragments of one chunk and
\* the second one, an aggregator, has ended with both of its fragments
C28_Witness ==
    /\ stream.gen = "llama_response"
    /\ stream.status = "cancelled"
    /\ stream.received = <<" ", " ">>
    /\ stream.emitted = <<Text(<<" ">>)>>
    /\ other_stream.gen = "llama_response"
    /\ other_stream.status = "ended"
    /\ other_stream.emitted = <<Text(<<" ">>), Text(<<"a">>)>>

\* the entry of the listed directory a descriptor stands for
EntryOf(root, descriptor) ==
    root.entries[CHOOSE i \in DOMAIN root.entries :
                    root.entries[i].path = descriptor.path]

\* C29: list_available_lora_adapters returns one descriptor for each
\* directory under the adapter root that holds adapter_config.json, whatever
\* the state of its training_config.json, and none for anything else; the
\* descriptors are ordered newest-first by the time the directory was made.
C29_OnePerAdapterNewestFirst ==
    fn_call.op = "list_available_lora_adapters"
    => LET root == fn_call.root
           out == fn_call.out
           qualifying == {i \in DOMAIN root.entries :
                            root.entries[i].is_dir /\ root.entries[i].has_config}
       IN /\ Len(out) = Cardinality(qualifying)
          /\ \A i \in qualifying :
                Cardinality({k \in DOMAIN out :
                               out[k].path = root.entries[i].path}) = 1
          /\ \A k, l \in DOMAIN out :
                k < l => EntryOf(root, out[k]).birth >= EntryOf(root, out[l]).birth

\* C30: an adapter that get_all_loaded_models lists with status "loaded"
\* (load_lora_adapter has returned success for it and its entry is in
\* loaded_models) has its weights loaded: the service of the entry says
\* is_loaded.
C30_ListedLoadedHasWeights ==
    \A m \in get_all_loaded_models :
        (m.type = "lora" /\ m.status = "loaded")
        => services[loaded_models[m.id].service].is_loaded

\* C31: whatever the order of _ensure_loaded, generate_response and
\* unload_model on the services, a service says loaded only with model,
\* tokenizer and generator all set; right after its unload_model all three are
\* None and it says not loaded; and a load that failed leaves it saying not
\* loaded.
C31_LoadedFlagHonest ==
    /\ \A s \in DOMAIN services :
          services[s].is_loaded
          => /\ services[s].model # None
             /\ services[s].tokenizer # None
             /\ services[s].generator # None
    /\ last.op = "service_unload_model"
       => /\ services[last.svc].model = None
          /\ services[last.svc].tokenizer = None
          /\ services[last.svc].generator = None
          /\ ~services[last.svc].is_loaded
    /\ (last.op = "generate_response" /\ last.out = "error_load")
       => ~services[last.svc].is_loaded

\* a load has failed on a service that was unloaded just before, halfway (the
\* tokenizer is there), while another service is loaded
C31_Witness ==
    /\ last.op = "generate_response"
    /\ last.out = "error_load"
    /\ last.again
    /\ services[last.svc].tokenizer # None
    /\ \E s \in DOMAIN services : services[s].is_loaded

\* C32: enhanced_chat_endpoint calls get_rag_response only for a request
\* with contextEnabled set, a model manager, a document keyword in the message,
\* no image context and no document with extracted text; the text it returns
\* is then streamed one character at a time, in order, and client.chat is not
\* called for the request.
C32_RetrievalPathGuarded ==
    /\ (\E i \in DOMAIN response.calls : response.calls[i] = "get_rag_response")
       => /\ request.contextEnabled
          /\ model_manager
          /\ has_document_keyword(request.message)
          /\ image_url(request) = None
          /\ ~(request.type = "document" /\ request.extractedText \notin {None, ""})
          /\ \A i \in DOMAIN response.calls : response.calls[i] # "chat"
    /\ stream.gen = "stream_rag_response"
       => /\ response.branch = "rag"
          /\ Len(stream.emitted) = Len(stream.received)
          /\ \A i \in DOMAIN stream.emitted :
                stream.emitted[i].text = <<stream.received[i]>>

\* a document request without extracted text took the retrieval path and its
\* two-character answer went out as two fragments
C32_Witness ==
    /\ request.type = "document"
    /\ response.branch = "rag"
    /\ response.rag.out = "answer"
    /\ stream.gen = "stream_rag_response"
    /\ stream.received = <<"a", " ">>
    /\ stream.emitted = <<Text(<<"a">>), Text(<<" ">>)>>

\* C33: when no image context is detected and the message has an image word,
\* the current message sent to the text backend is the "no image has been
\* provided" prompt built for that case, not the message as the user wrote it.
C33_NoImageNoticeSent ==
    (/\ request # NoRequest
     /\ image_url(request) = None
     /\ has_image_word(request.message)
     /\ \E i \in DOMAIN response.calls : response.calls[i] = "chat")
    => response.final_prompt = "no_image_notice"

\* C34: for a direct image upload (type "image" with a fileUrl) the image
\* that is downloaded and given to the vision backend is the one at
\* request.fileUrl, whatever contextFileUrl and imageUrl are.
C34_DirectUploadAnalysed ==
    (request.type = "image" /\ request.fileUrl # None)
    => /\ response.branch = "vision"
       /\ response.image_url = request.fileUrl

\* C35: on every path of the vision branch that has made the temporary image
\* file (no vision model, a listing error, a failed vision call, a stream that
\* ends or fails, a caller who stops before or while the response is
\* iterated) the file is deleted in the end.
C35_TempFileDeleted ==
    (vision.temp_image_path = "exists") ~> (vision.temp_image_path = "deleted")

\* the turns of the session in the memory
HistoryOf(session_id) ==
    IF session_id \in DOMAIN conversations THEN conversations[session_id] ELSE <<>>

\* C36: a request whose generation has failed leaves no turn in its session,
\* neither its user turn nor an assistant turn; so, once the requests are
\* answered, every user turn in a history has its assistant turn.
C36_FailedRequestLeavesNoTurn ==
    /\ fn_call.op = "failed"
       => \A i \in DOMAIN HistoryOf(fn_call.session_id) :
             HistoryOf(fn_call.session_id)[i].id # fn_call.id
    /\ fn_call.op \in {"failed", "ended"}
       => \A session_id \in Sessions :
             \A i \in DOMAIN HistoryOf(session_id) :
                HistoryOf(session_id)[i].role = "user"
                => \E j \in DOMAIN HistoryOf(session_id) :
                      /\ HistoryOf(session_id)[j].role = "assistant"
                      /\ HistoryOf(session_id)[j].id = HistoryOf(session_id)[i].id

\* C37: what a word-level aggregator has yielded depends on the text its
\* backend has streamed and not on the chunks the text came in: two
\* aggregators at the same point of the same text, whatever chunks each was
\* fed, have yielded the same fragments.
C37_ChunkingInvisible ==
    (/\ stream.gen \in Aggregators
     /\ other_stream.gen \in Aggregators
     /\ stream.status = other_stream.status
     /\ stream.received = other_stream.received)
    => stream.emitted = other_stream.emitted

\* the two aggregators have been fed the text "a a", in whatever chunks, and
\* both have ended with its two fragments
C37_Witness ==
    /\ stream.gen = "llama_response"
    /\ other_stream.gen = "llama_with_extracted_text"
    /\ stream.status = "ended"
    /\ other_stream.status = "ended"
    /\ stream.received = <<"a", " ", "a">>
    /\ other_stream.received = <<"a", " ", "a">>
    /\ stream.emitted = <<Text(<<"a", " ">>), Text(<<"a">>)>>

\* C38: once cancel_training has returned True for a job, "completed" is not
\* reported for it, and when its task is over the status last reported is
\* "cancelled", for the mock task and for the LoRA task.
C38_CancelledNeverCompletes ==
    \A job_id \in cancel_true :
        /\ reported[job_id] # "completed"
        /\ tasks[job_id].pc \in {"returned", "raised"}
           => reported[job_id] = "cancelled"

\* C39: a job that start_training has registered leaves active_trainings in
\* the end, whether it completes, fails or is cancelled, and its id is then in
\* neither active_trainings nor cancelled_jobs: get_training_status says
\* not_found.
C39_JobLeavesRegistry ==
    \A job_id \in JobIds :
        (job_id \in DOMAIN active_trainings)
        ~> [](/\ get_training_status(job_id) = "not_found"
              /\ job_id \notin cancelled_jobs)

====
